---- MODULE Spec2Model ----
(***************************************************************************)
(* Volume-reduction filtering and deduplication of the news pipeline       *)
(* (app/volume_reduction_pipeline.py) and the webhook handlers that drive  *)
(* it (app/filtered_pipeline.py).                                          *)
(*                                                                         *)
(* Text is a sequence of one-character strings over ASCII.  A digest       *)
(* (hashlib.md5) is modelled by the text it is taken of: equal digests are *)
(* equal preimages, i.e. md5 is taken to be collision free.                *)
(***************************************************************************)
EXTENDS Integers, Sequences, FiniteSets, TLC

(***************************************************************************)
(* Characters and the classes of Python's re module (\w, \s, [A-Za-z]).    *)
(***************************************************************************)
UpperAlpha ==
    <<"A", "B", "C", "D", "E", "F", "G", "H", "I", "J", "K", "L", "M",
      "N", "O", "P", "Q", "R", "S", "T", "U", "V", "W", "X", "Y", "Z">>

LowerAlpha ==
    <<"a", "b", "c", "d", "e", "f", "g", "h", "i", "j", "k", "l", "m",
      "n", "o", "p", "q", "r", "s", "t", "u", "v", "w", "x", "y", "z">>

DigitChars ==
    {"0", "1", "2", "3", "4", "5", "6", "7", "8", "9"}

UpperChars == {UpperAlpha[i] : i \in DOMAIN UpperAlpha}

LowerChars == {LowerAlpha[i] : i \in DOMAIN LowerAlpha}

LowerOf ==
    [c \in UpperChars |->
        LowerAlpha[CHOOSE i \in DOMAIN UpperAlpha : UpperAlpha[i] = c]]

\* position of a lower-case letter in the alphabet (its code-point order)
OrdOf ==
    [c \in LowerChars |-> CHOOSE i \in DOMAIN LowerAlpha : LowerAlpha[i] = c]

IsUpper(c) == c \in UpperChars

IsLetter(c) == c \in UpperChars \/ c \in LowerChars

\* \w
IsWord(c) == IsLetter(c) \/ c \in DigitChars \/ c = "_"

\* \s
IsSpace(c) == c \in {" ", "\t", "\n"}

Min(a, b) == IF a <= b THEN a ELSE b

\* str.lower()
lower(s) == [i \in 1..Len(s) |-> IF s[i] \in UpperChars THEN LowerOf[s[i]] ELSE s[i]]

\* s[:n]
Prefix(s, n) == SubSeq(s, 1, Min(n, Len(s)))

\* s[i:] starts with the literal p (1-based i)
MatchAt(s, i, p) ==
    /\ i >= 1
    /\ i + Len(p) - 1 <= Len(s)
    /\ \A k \in 1..Len(p) : s[i + k - 1] = p[k]

\* re.search of a literal
Contains(s, p) == \E i \in 1..(Len(s) - Len(p) + 1) : MatchAt(s, i, p)

\* every character of s[i..j] is in the class (true of an empty range)
AllSpace(s, i, j) == \A k \in i..j : IsSpace(s[k])

AllWord(s, i, j) == \A k \in i..j : IsWord(s[k])

NoNewline(s, i, j) == \A k \in i..j : s[k] # "\n"

\* the subsequence of s at the positions whose flag is TRUE
RECURSIVE Compress(_, _, _, _)
Compress(s, flags, lo, hi) ==
    IF lo > hi THEN <<>>
    ELSE IF lo = hi THEN (IF flags[lo] THEN <<s[lo]>> ELSE <<>>)
    ELSE LET mid == (lo + hi) \div 2
         IN  Compress(s, flags, lo, mid) \o Compress(s, flags, mid + 1, hi)

\* str.strip()
strip(s) ==
    LET ns == {i \in 1..Len(s) : ~IsSpace(s[i])}
    IN  IF ns = {} THEN <<>>
        ELSE LET first == CHOOSE i \in ns : \A j \in ns : i <= j
                 last  == CHOOSE i \in ns : \A j \in ns : i >= j
             IN  SubSeq(s, first, last)

(***************************************************************************)
(* Text Normalizer                                                         *)
(***************************************************************************)
StopWords ==
    { <<"t", "h", "e">>, <<"a">>, <<"a", "n">>, <<"a", "n", "d">>,
      <<"o", "r">>, <<"b", "u", "t">>, <<"i", "n">>, <<"o", "n">>,
      <<"a", "t">>, <<"t", "o">>, <<"f", "o", "r">>, <<"o", "f">>,
      <<"w", "i", "t", "h">>, <<"b", "y">> }

\* re.sub(r'\s+', ' ', text): every run of whitespace becomes one space
sub_whitespace(s) ==
    LET flags == [i \in 1..Len(s) |->
                    ~IsSpace(s[i]) \/ i = 1 \/ ~IsSpace(s[i - 1])]
        blank == [i \in 1..Len(s) |-> IF IsSpace(s[i]) THEN " " ELSE s[i]]
    IN  Compress(blank, flags, 1, Len(s))

\* re.sub(r'[^\w\s]', '', text)
sub_punctuation(s) == SelectSeq(s, LAMBDA c : IsWord(c) \/ IsSpace(c))

\* re.sub(r'\b(the|a|...|by)\b', '', text): a stop word is removed where it
\* is a whole word, i.e. has a \b on both sides; the blanks around it stay
sub_stopwords(s) ==
    LET n == Len(s)
        StartsWord(i) == IsWord(s[i]) /\ (i = 1 \/ ~IsWord(s[i - 1]))
        EndsWord(j) == j = n \/ ~IsWord(s[j + 1])
        Removed(k) ==
            \E i \in (k - 3)..k : \E j \in k..(i + 3) :
                /\ i >= 1 /\ j <= n
                /\ StartsWord(i) /\ EndsWord(j)
                /\ SubSeq(s, i, j) \in StopWords
        flags == [k \in 1..n |-> ~Removed(k)]
    IN  Compress(s, flags, 1, n)

_normalize_text(text) ==
    IF text = <<>> THEN <<>>
    ELSE strip(sub_stopwords(lower(sub_punctuation(sub_whitespace(text)))))

(***************************************************************************)
(* Signature Generator                                                     *)
(***************************************************************************)
ExactPrefixLen == 1000

FuzzyPrefixLen == 500

MinTokenLen == 4

MaxKeyWords == 10

\* create_content_signature without the cut of the body
create_content_signature_WholeBody(title, content) ==
    _normalize_text(title) \o <<"|">> \o _normalize_text(content)

\* the digest of f"{normalized_title}|{normalized_content}"
create_content_signature(title, content) ==
    _normalize_text(title) \o <<"|">>
        \o _normalize_text(Prefix(content, ExactPrefixLen))

\* the index of the last character of the word that starts at i
WordEnd(s, i) ==
    CHOOSE j \in i..Len(s) :
        /\ j = Len(s) \/ ~IsWord(s[j + 1])
        /\ \A k \in i..(j - 1) : IsWord(s[k + 1])

\* set(re.findall(r'\b[A-Za-z]{4,}\b', s)): the words (runs of \w between
\* two \b) made of letters only, at least 4 of them
LetterWords(s) ==
    LET starts == {i \in 1..Len(s) :
                      IsWord(s[i]) /\ (i = 1 \/ ~IsWord(s[i - 1]))}
        words  == {SubSeq(s, i, WordEnd(s, i)) : i \in starts}
    IN  {w \in words : Len(w) >= MinTokenLen /\ \A k \in 1..Len(w) : IsLetter(w[k])}

\* u < v for two strings of lower-case letters (Python's str order)
LexLess(u, v) ==
    \E k \in 1..(Len(v)) :
        /\ \A m \in 1..(k - 1) : m <= Len(u) /\ u[m] = v[m]
        /\ k > Len(u) \/ (k - 1 < Len(u) /\ OrdOf[u[k]] < OrdOf[v[k]])

\* sorted(S)[:n]
RECURSIVE SortedPrefix(_, _)
SortedPrefix(S, n) ==
    IF S = {} \/ n = 0 THEN <<>>
    ELSE LET least == CHOOSE x \in S : \A y \in S \ {x} : LexLess(x, y)
         IN  <<least>> \o SortedPrefix(S \ {least}, n - 1)

\* create_fuzzy_signature without the cut of the body
create_fuzzy_signature_WholeBody(title, content) ==
    LET title_words   == LetterWords(lower(title))
        content_words == LetterWords(lower(content))
    IN  SortedPrefix(title_words \cup content_words, MaxKeyWords)

\* the digest of "|".join(sorted(key_words)): the words hold no "|", so
\* the joined text and the sequence of words determine each other
create_fuzzy_signature(title, content) ==
    LET title_words   == LetterWords(lower(title))
        content_words == LetterWords(lower(Prefix(content, FuzzyPrefixLen)))
    IN  SortedPrefix(title_words \cup content_words, MaxKeyWords)

(***************************************************************************)
(* difflib.SequenceMatcher(None, a, b).ratio()                             *)
(***************************************************************************)
\* the elements autojunk takes out of the index of b: those that occur
\* more than len(b) // 100 + 1 times, when len(b) >= 200
Popular(b) ==
    IF Len(b) >= 200
    THEN {c \in {b[j] : j \in 1..Len(b)} :
             Cardinality({j \in 1..Len(b) : b[j] = c}) > (Len(b) \div 100) + 1}
    ELSE {}

\* Op(v), with v evaluated once
Bind(v, Op(_)) == CHOOSE r \in {Op(x) : x \in {v}} : TRUE

\* the maximal diagonal runs a[i..i+k-1] = b[j..j+k-1] of indexed elements
\* within a[alo..ahi], b[blo..bhi]: the values j2len takes at their ends
MatchingRuns(a, b, pop, alo, ahi, blo, bhi) ==
    LET Eq(i, j) == a[i] = b[j] /\ b[j] \notin pop
        Breaks(i, j, d) == i + d > ahi \/ j + d > bhi \/ ~Eq(i + d, j + d)
        RunLen(i, j) == CHOOSE d \in 1..(ahi - i + 1) :
                            Breaks(i, j, d) /\ \A e \in 1..(d - 1) : ~Breaks(i, j, e)
    IN  UNION {{[i |-> i, j |-> j, k |-> RunLen(i, j)] : j \in {j2 \in blo..bhi :
                  /\ Eq(i, j2)
                  /\ ~(i > alo /\ j2 > blo /\ Eq(i - 1, j2 - 1))}} :
                  i \in alo..ahi}

\* the run the scan of j2len keeps: it replaces its best block only by a
\* strictly longer one, so the longest, the earliest in a and then in b
\* among the longest; (alo, blo, 0) when nothing matches
BestRun(runs, alo, blo) ==
    IF runs = {} THEN [i |-> alo, j |-> blo, k |-> 0]
    ELSE CHOOSE m \in runs : \A t \in runs :
            \/ m.k > t.k
            \/ m.k = t.k /\ (m.i < t.i \/ (m.i = t.i /\ m.j <= t.j))

\* the block extended on both sides over equal elements (these can only be
\* popular ones)
ExtendRun(a, b, core, alo, ahi, blo, bhi) ==
    LET lroom == Min(core.i - alo, core.j - blo)
        left == CHOOSE e \in 0..lroom :
                    /\ \A d \in 1..e : a[core.i - d] = b[core.j - d]
                    /\ e = lroom \/ a[core.i - e - 1] # b[core.j - e - 1]
        rroom == Min(ahi - (core.i + core.k) + 1, bhi - (core.j + core.k) + 1)
        right == CHOOSE e \in 0..rroom :
                    /\ \A d \in 1..e :
                          a[core.i + core.k + d - 1] = b[core.j + core.k + d - 1]
                    /\ e = rroom \/ a[core.i + core.k + e] # b[core.j + core.k + e]
    IN  [i |-> core.i - left, j |-> core.j - left, k |-> core.k + left + right]

\* find_longest_match(alo, ahi, blo, bhi) on a[alo..ahi], b[blo..bhi]
find_longest_match(a, b, pop, alo, ahi, blo, bhi) ==
    Bind(MatchingRuns(a, b, pop, alo, ahi, blo, bhi), LAMBDA runs :
        Bind(BestRun(runs, alo, blo), LAMBDA core :
            ExtendRun(a, b, core, alo, ahi, blo, bhi)))

\* the total size of get_matching_blocks()
RECURSIVE MatchTotal(_, _, _, _, _, _, _)
MatchTotal(a, b, pop, alo, ahi, blo, bhi) ==
    Bind(find_longest_match(a, b, pop, alo, ahi, blo, bhi), LAMBDA m :
        IF m.k = 0 THEN 0
        ELSE m.k
             + (IF alo < m.i /\ blo < m.j
                THEN MatchTotal(a, b, pop, alo, m.i - 1, blo, m.j - 1) ELSE 0)
             + (IF m.i + m.k <= ahi /\ m.j + m.k <= bhi
                THEN MatchTotal(a, b, pop, m.i + m.k, ahi, m.j + m.k, bhi) ELSE 0))

\* ratio() is 2.0 * matches / length, and 1.0 when length is 0; the model
\* keeps the two integers
calculate_similarity(text1, text2) ==
    [matches |-> Bind(Popular(text2), LAMBDA pop :
                     MatchTotal(text1, text2, pop, 1, Len(text1), 1, Len(text2))),
     length  |-> Len(text1) + Len(text2)]

\* similarity >= self.similarity_threshold, the threshold being 0.8
similarity_threshold_tenths == 8

ReachesThreshold(sim) ==
    IF sim.length = 0 THEN 10 >= similarity_threshold_tenths
    ELSE 10 * 2 * sim.matches >= similarity_threshold_tenths * sim.length

(***************************************************************************)
(* Pattern Classifiers.  A pattern list is evaluated with re.IGNORECASE,   *)
(* so the literals are kept in lower case and sought in the lowered text.  *)
(***************************************************************************)
similarity_prefix == 500

min_content_length == 150

\* the index after the run of whitespace (of \w characters, of characters
\* other than whitespace) that starts at i
AfterSpaces(s, i) ==
    CHOOSE j \in i..(Len(s) + 1) :
        /\ j = Len(s) + 1 \/ ~IsSpace(s[j])
        /\ \A k \in i..(j - 1) : IsSpace(s[k])

AfterWord(s, i) ==
    CHOOSE j \in i..(Len(s) + 1) :
        /\ j = Len(s) + 1 \/ ~IsWord(s[j])
        /\ \A k \in i..(j - 1) : IsWord(s[k])

AfterLetters(s, i) ==
    CHOOSE j \in i..(Len(s) + 1) :
        /\ j = Len(s) + 1 \/ ~IsLetter(s[j])
        /\ \A k \in i..(j - 1) : IsLetter(s[k])

AfterNonSpaces(s, i) ==
    CHOOSE j \in i..(Len(s) + 1) :
        /\ j = Len(s) + 1 \/ IsSpace(s[j])
        /\ \A k \in i..(j - 1) : ~IsSpace(s[k])

\* r'X\s*-'
SearchDashed(s, x) ==
    \E i \in 1..Len(s) :
        /\ MatchAt(s, i, x)
        /\ AfterSpaces(s, i + Len(x)) <= Len(s)
        /\ s[AfterSpaces(s, i + Len(x))] = "-"

\* r'A.*B': the dot matches no newline
SearchDotStar(s, a, b) ==
    \E i \in 1..Len(s) :
        /\ MatchAt(s, i, a)
        /\ \E j \in (i + Len(a))..Len(s) :
              MatchAt(s, j, b) /\ NoNewline(s, i + Len(a), j - 1)

\* f"{title} {content}"
FullText(title, content) == title \o <<" ">> \o content

wire_service_literals ==
    { <<"(", "r", "e", "u", "t", "e", "r", "s", ")">>,
      <<"(", "a", "p", ")">>,
      <<"(", "a", "f", "p", ")">>,
      <<"(", "b", "l", "o", "o", "m", "b", "e", "r", "g", ")">>,
      <<"p", "r", "e", "s", "s", " ", "t", "r", "u", "s", "t", " ", "o", "f", " ", "i", "n", "d", "i", "a">>,
      <<"(", "i", "a", "n", "s", ")">>,
      <<"(", "p", "t", "i", ")">>,
      <<"n", "e", "w", "s", " ", "a", "g", "e", "n", "c", "i", "e", "s">>,
      <<"w", "i", "r", "e", " ", "s", "e", "r", "v", "i", "c", "e", "s">> }

wire_service_dashed ==
    { <<"p", "t", "i">>,
      <<"a", "n", "i">>,
      <<"i", "a", "n", "s">>,
      <<"u", "n", "i">> }

\* r'\b(By|Reporter|Correspondent):', matched with the case it is written in
byline_markers ==
    { <<"B", "y", ":">>,
      <<"R", "e", "p", "o", "r", "t", "e", "r", ":">>,
      <<"C", "o", "r", "r", "e", "s", "p", "o", "n", "d", "e", "n", "t", ":">> }

is_wire_service_content(title, content) ==
    LET full_text == FullText(title, content)
        low == lower(full_text)
        n == Len(full_text)
        byline_count ==
            Cardinality({i \in 1..n :
                /\ i = 1 \/ ~IsWord(full_text[i - 1])
                /\ \E m \in byline_markers : MatchAt(full_text, i, m)})
    IN  \/ \E p \in wire_service_literals : Contains(low, p)
        \/ \E p \in wire_service_dashed : SearchDashed(low, p)
        \* r'Courtesy:.*Reuters'
        \/ SearchDotStar(low, <<"c", "o", "u", "r", "t", "e", "s", "y", ":">>, <<"r", "e", "u", "t", "e", "r", "s">>)
        \* r'Source:.*AP\s'
        \/ \E i \in 1..n :
              /\ MatchAt(low, i, <<"s", "o", "u", "r", "c", "e", ":">>)
              /\ \E j \in (i + 7)..(n - 2) :
                    /\ MatchAt(low, j, <<"a", "p">>)
                    /\ IsSpace(low[j + 2])
                    /\ NoNewline(low, i + 7, j - 1)
        \/ byline_count > 2

pr_literals ==
    { <<"p", "r", "e", "s", "s", " ", "r", "e", "l", "e", "a", "s", "e">>,
      <<"f", "o", "r", " ", "i", "m", "m", "e", "d", "i", "a", "t", "e", " ", "r", "e", "l", "e", "a", "s", "e">>,
      <<"b", "u", "s", "i", "n", "e", "s", "s", " ", "w", "i", "r", "e">>,
      <<"p", "r", " ", "n", "e", "w", "s", "w", "i", "r", "e">>,
      <<"p", "r", "w", "e", "b">>,
      <<"m", "e", "d", "i", "a", " ", "c", "o", "n", "t", "a", "c", "t", ":">>,
      <<"t", "h", "i", "s", " ", "i", "s", " ", "a", " ", "s", "p", "o", "n", "s", "o", "r", "e", "d">>,
      <<"p", "a", "i", "d", " ", "a", "d", "v", "e", "r", "t", "i", "s", "e", "m", "e", "n", "t">> }

\* (?:Inc|Corp|Ltd|LLC|Co), matched with the case it is written in
company_suffixes ==
    { <<"I", "n", "c">>,
      <<"C", "o", "r", "p">>,
      <<"L", "t", "d">>,
      <<"L", "L", "C">>,
      <<"C", "o">> }

\* where a match of r'\b[A-Z][a-zA-Z]*\s+(?:Inc|Corp|Ltd|LLC|Co)\b' that
\* begins at i ends (0 when none begins there)
CompanyMentionEnd(s, i) ==
    IF ~(IsUpper(s[i]) /\ (i = 1 \/ ~IsWord(s[i - 1]))) THEN 0
    ELSE LET e == AfterLetters(s, i)
             f == AfterSpaces(s, e)
             ends == {f + Len(x) - 1 : x \in {y \in company_suffixes :
                         /\ MatchAt(s, f, y)
                         /\ f + Len(y) > Len(s) \/ ~IsWord(s[f + Len(y)])}}
         IN  IF f > e /\ ends # {} THEN CHOOSE k \in ends : TRUE ELSE 0

\* len(re.findall(...)): the matches are taken from left to right and do
\* not overlap
RECURSIVE CountCompanyMentions(_, _)
CountCompanyMentions(s, from) ==
    LET begins == {i \in from..Len(s) : CompanyMentionEnd(s, i) > 0}
    IN  IF begins = {} THEN 0
        ELSE LET i == CHOOSE b \in begins : \A c \in begins : b <= c
             IN  1 + CountCompanyMentions(s, CompanyMentionEnd(s, i) + 1)

is_pr_content(title, content) ==
    LET full_text == FullText(title, content)
        low == lower(full_text)
        n == Len(full_text)
    IN  \/ \E p \in pr_literals : Contains(low, p)
        \* r'Contact:.*@.*\.'
        \/ \E i \in 1..n :
              /\ MatchAt(low, i, <<"c", "o", "n", "t", "a", "c", "t", ":">>)
              /\ \E j \in (i + 8)..n : \E k \in (j + 1)..n :
                    low[j] = "@" /\ low[k] = "." /\ NoNewline(low, i + 8, k - 1)
        \* r'About [A-Z][a-zA-Z\s]*:'
        \/ \E i \in 1..(n - 7) :
              /\ MatchAt(low, i, <<"a", "b", "o", "u", "t", " ">>)
              /\ IsLetter(low[i + 6])
              /\ \E k \in (i + 7)..n :
                    /\ low[k] = ":"
                    /\ \A m \in (i + 7)..(k - 1) : IsLetter(low[m]) \/ IsSpace(low[m])
        \/ SearchDotStar(low, <<"f", "o", "r", " ", "m", "o", "r", "e", " ", "i", "n", "f", "o", "r", "m", "a", "t", "i", "o", "n">>, <<"v", "i", "s", "i", "t">>)
        \/ SearchDotStar(low, <<"d", "i", "s", "c", "l", "a", "i", "m", "e", "r", ":">>, <<"i", "n", "v", "e", "s", "t", "m", "e", "n", "t">>)
        \/ CountCompanyMentions(content, 1) > 5

low_value_literals ==
    { <<"m", "o", "r", "e", " ", "d", "e", "t", "a", "i", "l", "s", " ", "t", "o", " ", "f", "o", "l", "l", "o", "w">>,
      <<"t", "h", "i", "s", " ", "i", "s", " ", "a", " ", "d", "e", "v", "e", "l", "o", "p", "i", "n", "g", " ", "s", "t", "o", "r", "y">>,
      <<"s", "t", "o", "r", "y", " ", "w", "i", "l", "l", " ", "b", "e", " ", "u", "p", "d", "a", "t", "e", "d">>,
      <<"n", "o", " ", "a", "d", "d", "i", "t", "i", "o", "n", "a", "l", " ", "d", "e", "t", "a", "i", "l", "s">>,
      <<"d", "e", "v", "e", "l", "o", "p", "i", "n", "g", ".", ".", ".">> }

\* content.split()
SplitStarts(s) ==
    {i \in 1..Len(s) : ~IsSpace(s[i]) /\ (i = 1 \/ IsSpace(s[i - 1]))}

is_low_value_content(title, content) ==
    LET full_text == FullText(title, content)
        low == lower(full_text)
        n == Len(full_text)
        starts == SplitStarts(content)
        words == {SubSeq(content, i, AfterNonSpaces(content, i) - 1) : i \in starts}
        \* r'^\w+\s+\w+\s*-\s*$'
        w1 == AfterWord(low, 1)
        s1 == AfterSpaces(low, w1)
        w2 == AfterWord(low, s1)
        s2 == AfterSpaces(low, w2)
    IN  \/ Len(strip(content)) < min_content_length
        \* r'^Live updates:'
        \/ MatchAt(low, 1, <<"l", "i", "v", "e", " ", "u", "p", "d", "a", "t", "e", "s", ":">>)
        \* r'^Breaking:.*\.$': $ is the end, or the newline that ends the text
        \/ /\ MatchAt(low, 1, <<"b", "r", "e", "a", "k", "i", "n", "g", ":">>)
           /\ \E e \in {n} \cup (IF low[n] = "\n" THEN {n - 1} ELSE {}) :
                 e >= 10 /\ low[e] = "." /\ NoNewline(low, 10, e - 1)
        \/ \E p \in low_value_literals : Contains(low, p)
        \/ /\ w1 > 1 /\ s1 > w1 /\ w2 > s1
           /\ s2 <= n /\ low[s2] = "-"
           /\ AfterSpaces(low, s2 + 1) = n + 1
        \* len(set(words)) < len(words) * 0.3
        \/ 10 * Cardinality(words) < 3 * Cardinality(starts)

filtered_patterns ==
    { <<"/", "p", "r", "e", "s", "s", "-", "r", "e", "l", "e", "a", "s", "e", "/">>,
      <<"/", "p", "r", "/">>,
      <<"/", "a", "d", "v", "e", "r", "t", "i", "s", "e", "m", "e", "n", "t", "/">>,
      <<"/", "s", "p", "o", "n", "s", "o", "r", "e", "d", "/">>,
      <<"/", "j", "o", "b", "s", "/">>,
      <<"/", "c", "a", "r", "e", "e", "r", "s", "/">>,
      <<"/", "o", "b", "i", "t", "u", "a", "r", "y", "/">>,
      <<"/", "w", "e", "a", "t", "h", "e", "r", "/">>,
      <<"/", "s", "p", "o", "r", "t", "s", "-", "s", "c", "o", "r", "e", "s", "/">>,
      <<"/", "s", "t", "o", "c", "k", "-", "p", "r", "i", "c", "e", "s", "/">> }

_is_filtered_url(url) ==
    \E p \in filtered_patterns : Contains(lower(url), p)

(***************************************************************************)
(* The items the model draws its inputs from: concrete titles, bodies and  *)
(* URLs.  A body that is to pass the low-value check needs 150 characters, *)
(* which a run of one letter supplies.                                     *)
(***************************************************************************)
\* None, and `x or ""`
NoneText == <<"None">>

OrEmpty(x) == IF x = NoneText THEN <<>> ELSE x

Rep(c, n) == [i \in 1..n |-> c]

\* the first n characters of s repeated over and over
Cycle(s, n) == [i \in 1..n |-> s[((i - 1) % Len(s)) + 1]]

Digits == <<"0", "1", "2", "3", "4", "5", "6", "7", "8", "9">>

Url_plain == <<"h", "t", "t", "p", "s", ":", "/", "/", "n", ".", "i", "o", "/", "a", "/", "1">>

Url_filtered == <<"h", "t", "t", "p", "s", ":", "/", "/", "n", ".", "i", "o", "/", "p", "r", "e", "s", "s", "-", "r", "e", "l", "e", "a", "s", "e", "/", "1">>

Body_rates == <<"C", "e", "n", "t", "r", "a", "l", " ", "b", "a", "n", "k", " ", "l", "i", "f", "t", "s", " ", "r", "a", "t", "e", "s", " ">> \o Cycle(LowerAlpha, 150)

Body_storm == <<"H", "e", "a", "v", "y", " ", "r", "a", "i", "n", " ", "f", "l", "o", "o", "d", "s", " ", "t", "o", "w", "n", "s", " ">> \o Cycle(Digits, 150)

Corpus ==
    << \* 1: passes every check
       [title |-> <<"R", "a", "t", "e", "s", " ", "r", "i", "s", "e">>, content |-> Body_rates, url |-> Url_plain],
       \* 2: item 1 in other case and punctuation, the same exact signature
       [title |-> <<"R", "A", "T", "E", "S", " ", "r", "i", "s", "e", "!">>,
        content |-> <<"C", "e", "n", "t", "r", "a", "l", " ", "b", "a", "n", "k", " ", "l", "i", "f", "t", "s", " ", "r", "a", "t", "e", "s", ".", " ">> \o Cycle(LowerAlpha, 150), url |-> Url_plain],
       \* 3: the fuzzy signature of item 1, another exact signature
       [title |-> <<"R", "a", "t", "e", "s", " ", "r", "i", "s", "e", " ", "u", "p">>, content |-> Body_rates, url |-> Url_plain],
       \* 4: similar to item 1, another fuzzy signature
       [title |-> <<"R", "a", "t", "e", "s", " ", "f", "a", "l", "l">>, content |-> Body_rates, url |-> Url_plain],
       \* 5: unrelated to items 1 to 4, passes every check
       [title |-> <<"S", "t", "o", "r", "m", " ", "h", "i", "t", "s", " ", "c", "o", "a", "s", "t">>, content |-> Body_storm, url |-> Url_plain],
       \* 6: item 5 under a filtered URL
       [title |-> <<"S", "t", "o", "r", "m", " ", "h", "i", "t", "s", " ", "c", "o", "a", "s", "t">>, content |-> Body_storm, url |-> Url_filtered],
       \* 7: a short body
       [title |-> <<"Q", "u", "i", "c", "k", " ", "n", "o", "t", "e">>, content |-> <<"t", "o", "o", " ", "s", "h", "o", "r", "t">>, url |-> Url_plain],
       \* 8: wire-service copy
       [title |-> <<"M", "a", "r", "k", "e", "t", "s", " ", "r", "a", "l", "l", "y", " ", "(", "R", "e", "u", "t", "e", "r", "s", ")">>,
        content |-> <<"S", "t", "o", "c", "k", "s", " ", "c", "l", "i", "m", "b", " ", "(", "R", "e", "u", "t", "e", "r", "s", ")", " ">> \o Rep("w", 150), url |-> Url_plain],
       \* 9: short, wire-service, promotional, under a filtered URL
       [title |-> <<"A", "c", "m", "e", " ", "n", "e", "w", "s">>, content |-> <<"P", "r", "e", "s", "s", " ", "r", "e", "l", "e", "a", "s", "e", " ", "(", "A", "P", ")", " ", "A", "c", "m", "e">>, url |-> Url_filtered],
       \* 10, 11, 12: short items; the similarity ratio of 10 and 11 is 16/20,
       \* of 10 and 12 it is 14/20
       [title |-> <<"Q", "u", "a", "k", "e">>, content |-> <<"h", "i", "t", "s">>, url |-> Url_plain],
       [title |-> <<"Q", "u", "a", "k", "e">>, content |-> <<"h", "i", "y", "a">>, url |-> Url_plain],
       [title |-> <<"Q", "u", "a", "k", "e">>, content |-> <<"h", "y", "m", "n">>, url |-> Url_plain],
       \* 13: an entry whose body is null; 14: the same with the empty body
       [title |-> <<"Q", "u", "i", "c", "k", " ", "n", "o", "t", "e">>, content |-> NoneText, url |-> Url_plain],
       [title |-> <<"Q", "u", "i", "c", "k", " ", "n", "o", "t", "e">>, content |-> <<>>, url |-> Url_plain],
       \* 15, 16: stop words only, nothing is left of them after normalization;
       \* "with" has the 4 letters of a key word, "the" has not
       [title |-> <<"W", "i", "t", "h">>, content |-> <<>>, url |-> Url_plain],
       [title |-> <<"T", "h", "e">>, content |-> <<>>, url |-> Url_plain],
       \* 17, 18: items 13 and 14 under a filtered URL
       [title |-> <<"Q", "u", "i", "c", "k", " ", "n", "o", "t", "e">>, content |-> NoneText, url |-> Url_filtered],
       [title |-> <<"Q", "u", "i", "c", "k", " ", "n", "o", "t", "e">>, content |-> <<>>, url |-> Url_filtered] >>

CorpusIds == DOMAIN Corpus

\* the items whose body is a string
TextIds == {c \in CorpusIds : Corpus[c].content # NoneText}

\* the items that stored articles are drawn from
ArticleIds == {1, 3, 4, 5, 7, 10, 11, 12, 13, 16}

\* the item an entry becomes when its body is taken as `entry.content or ""`
OrEmptyItem ==
    [c \in CorpusIds |->
        CHOOSE d \in CorpusIds :
            /\ Corpus[d].title = Corpus[c].title
            /\ Corpus[d].url = Corpus[c].url
            /\ Corpus[d].content = OrEmpty(Corpus[c].content)]

\* the body is None: len(content.strip()) raises AttributeError in
\* is_low_value_content, content[:1000] raises TypeError in
\* create_content_signature
Raises(item) == Corpus[item].content = NoneText

(***************************************************************************)
(* What the checks compute of each item of the corpus, evaluated once.     *)
(***************************************************************************)
SignatureOf ==
    [c \in TextIds |-> create_content_signature(Corpus[c].title, Corpus[c].content)]

FuzzyOf ==
    [c \in TextIds |-> create_fuzzy_signature(Corpus[c].title, Corpus[c].content)]

\* self._normalize_text(f"{title} {content[:500]}")
ComparedText(title, content) ==
    _normalize_text(FullText(title, Prefix(content, similarity_prefix)))

ComparedOf ==
    [c \in TextIds |-> ComparedText(Corpus[c].title, Corpus[c].content)]

\* of a stored article: article.title, article.content or ""
ArticleFuzzyOf ==
    [c \in ArticleIds |->
        create_fuzzy_signature(Corpus[c].title, OrEmpty(Corpus[c].content))]

ArticleComparedOf ==
    [c \in ArticleIds |-> ComparedText(Corpus[c].title, OrEmpty(Corpus[c].content))]

\* similarity >= self.similarity_threshold of a candidate and an article
SimilarTo ==
    [c \in TextIds |-> [a \in ArticleIds |->
        ReachesThreshold(calculate_similarity(ComparedOf[c], ArticleComparedOf[a]))]]

LowValueOf ==
    [c \in TextIds |-> is_low_value_content(Corpus[c].title, Corpus[c].content)]

WireServiceOf ==
    [c \in TextIds |-> is_wire_service_content(Corpus[c].title, Corpus[c].content)]

PrOf ==
    [c \in TextIds |-> is_pr_content(Corpus[c].title, Corpus[c].content)]

FilteredUrlOf ==
    [c \in CorpusIds |-> _is_filtered_url(Corpus[c].url)]

(***************************************************************************)
(* Bounds of the model                                                     *)
(***************************************************************************)
\* entries per delivery, deliveries per run, clock ticks per run
MaxBatch == 2

MaxDeliveries == 2

MaxTicks == 3

\* hours the clock advances in one tick
TickHours == 12

\* direct calls of the reducer per run, articles per window of such a call
MaxCalls == 2

MaxWindow == 2

\* the candidates of direct calls, and the articles of their windows, each
\* <<item, age in hours>>: 2 days, 7 days and a half, 10 days old
DetectItems == {1, 6, 7, 9, 13, 15, 17}

WindowArticles ==
    {<<3, 48>>, <<4, 48>>, <<4, 180>>, <<4, 240>>, <<5, 48>>, <<13, 48>>, <<16, 48>>}

\* the items the entries of deliveries are drawn from
PayloadItems == {1, 5, 9, 13}

\* the values of max_lookback_days a caller of filter_articles_batch
\* passes, and what the articles table holds then: item 3, which has the
\* fuzzy signature of item 1, stored 2 days, 7 days and a half or 10 days ago
Lookbacks == {1, 7, 14}

\* the items the batches of such a caller are drawn from
BatchItems == {1, 5, 6, 9, 13}

BatchArticles ==
    { <<>>,
      <<[item |-> 3, created_at |-> 0 - 48]>>,
      <<[item |-> 3, created_at |-> 0 - 180]>>,
      <<[item |-> 3, created_at |-> 0 - 240]>>,
      <<[item |-> 5, created_at |-> 0 - 48], [item |-> 3, created_at |-> 0 - 240]>> }

\* the request handlers that can be in flight at once
Handlers == {1, 2}

\* what the article table can hold when the service starts: nothing, or
\* item 5 stored 160 hours ago (it leaves the 7-day window at the first
\* tick) or 100 hours ago (it stays in the window)
InitialArticles ==
    { <<>>, <<[item |-> 5, created_at |-> 0 - 160]>>,
      <<[item |-> 5, created_at |-> 0 - 100]>> }

(***************************************************************************)
(* State.  Time is in hours; the clock does not advance while a handler    *)
(* runs between two suspension points.                                     *)
(***************************************************************************)
VARIABLES
    now,                \* the clock read by datetime.now()
    recent_hashes,      \* VolumeReducer.recent_hashes of the global instance
    last_cache_cleanup, \* VolumeReducer.last_cache_cleanup
    articles,           \* the articles table: <<[item, created_at], ...>>
    filtering_stats,    \* the module-level statistics of filtered_pipeline
    pc,                 \* where each handler is
    running,            \* the handler the event loop is executing, 0 if none
    frame,              \* the local variables of each handler
    deliveries,         \* requests received so far
    ticks,              \* ticks of the clock so far
    call,               \* the last direct call of the reducer and its result
    prev_call,          \* the direct call before it
    ncalls,             \* direct calls so far
    probe,              \* the last call of a text function and its result
    article_status,     \* Article.status and processing_error, by article id
    processed_articles, \* the processed_articles table
    run,                \* the Stage-A run or call in progress and its locals
    reported,           \* the last answer of GET /filtering/stats
    answered            \* the last delivery the filtered webhook answered

vars ==
    <<now, recent_hashes, last_cache_cleanup, articles, filtering_stats, pc,
      running, frame, deliveries, ticks, call, prev_call, ncalls, probe,
      answered, article_status, processed_articles, run, reported>>

\* the state of the Stage-A analysis
stage_vars == <<article_status, processed_articles, run>>

web_vars ==
    <<articles, filtering_stats, pc, running, frame, deliveries, answered>>

\* what the steps of a handler before its answer leave alone
call_vars == <<call, prev_call, ncalls, probe, answered, stage_vars,
                   reported>>

(***************************************************************************)
(* Duplicate Detector and Decision Aggregator.  An item is named by its    *)
(* index in Corpus and stands for its title, body and URL; an article is   *)
(* [item, created_at].  The operators read the cache and the clock and     *)
(* return, with their result, the cache they leave behind.                 *)
(***************************************************************************)
hash_cache_expiry == 24

lookback_days == 7

max_lookback_days == 7

\* (current_time - article_time).days
AgeDays(article) == (now - article.created_at) \div 24

\* is_duplicate without the insertion at its end
is_duplicate_NoInsert(item, existing_articles) ==
    LET Matches(a) ==
            /\ ~(AgeDays(a) > lookback_days)
            /\ \/ FuzzyOf[item] = ArticleFuzzyOf[a.item]
               \/ SimilarTo[item][a.item]
        hits == {i \in DOMAIN existing_articles : Matches(existing_articles[i])}
        first == CHOOSE i \in hits : \A j \in hits : i <= j
    IN  IF SignatureOf[item] \in recent_hashes
        THEN [dup |-> TRUE, type |-> "exact_duplicate", hashes |-> recent_hashes]
        ELSE IF hits # {}
        THEN [dup |-> TRUE,
              type |-> IF FuzzyOf[item] = ArticleFuzzyOf[existing_articles[first].item]
                       THEN "fuzzy_duplicate" ELSE "similar_content",
              hashes |-> recent_hashes]
        ELSE [dup |-> FALSE, type |-> "None", hashes |-> recent_hashes]

\* is_duplicate with the window scanned before the cache is looked up
is_duplicate_WindowFirst(item, existing_articles) ==
    LET Matches(a) ==
            /\ ~(AgeDays(a) > lookback_days)
            /\ \/ FuzzyOf[item] = ArticleFuzzyOf[a.item]
               \/ SimilarTo[item][a.item]
        hits == {i \in DOMAIN existing_articles : Matches(existing_articles[i])}
        first == CHOOSE i \in hits : \A j \in hits : i <= j
    IN  IF hits # {}
        THEN [dup |-> TRUE,
              type |-> IF FuzzyOf[item] = ArticleFuzzyOf[existing_articles[first].item]
                       THEN "fuzzy_duplicate" ELSE "similar_content",
              hashes |-> recent_hashes]
        ELSE IF SignatureOf[item] \in recent_hashes
        THEN [dup |-> TRUE, type |-> "exact_duplicate", hashes |-> recent_hashes]
        ELSE [dup |-> FALSE, type |-> "None",
              hashes |-> recent_hashes \cup {SignatureOf[item]}]

is_duplicate(item, existing_articles) ==
    LET content_hash == SignatureOf[item]
        fuzzy_hash == FuzzyOf[item]
        \* "Skip if too old"
        Skipped(a) == AgeDays(a) > lookback_days
        Fuzzy(a) == fuzzy_hash = ArticleFuzzyOf[a.item]
        Similar(a) == SimilarTo[item][a.item]
        \* the loop returns at the first article that matches either way
        hits == {i \in DOMAIN existing_articles :
                    /\ ~Skipped(existing_articles[i])
                    /\ Fuzzy(existing_articles[i]) \/ Similar(existing_articles[i])}
        first == CHOOSE i \in hits : \A j \in hits : i <= j
    IN  IF content_hash \in recent_hashes
        THEN [dup |-> TRUE, type |-> "exact_duplicate", hashes |-> recent_hashes]
        ELSE IF hits # {}
        THEN [dup |-> TRUE,
              type |-> IF Fuzzy(existing_articles[first])
                       THEN "fuzzy_duplicate" ELSE "similar_content",
              hashes |-> recent_hashes]
        ELSE [dup |-> FALSE, type |-> "None",
              hashes |-> recent_hashes \cup {content_hash}]

\* f"duplicate_{dup_type}"
DuplicateReason(type) ==
    CASE type = "exact_duplicate" -> "duplicate_exact_duplicate"
      [] type = "fuzzy_duplicate" -> "duplicate_fuzzy_duplicate"
      [] type = "similar_content" -> "duplicate_similar_content"

\* should_process_article that leaves the cache as it found it
should_process_article_Pure(item, existing_articles) ==
    Bind(IF existing_articles # <<>>
         THEN is_duplicate(item, existing_articles)
         ELSE [dup |-> FALSE, type |-> "None", hashes |-> recent_hashes],
         LAMBDA dup :
            LET rejection_reasons ==
                    (IF LowValueOf[item] THEN <<"low_value_content">> ELSE <<>>)
                    \o (IF WireServiceOf[item] THEN <<"wire_service">> ELSE <<>>)
                    \o (IF PrOf[item] THEN <<"pr_content">> ELSE <<>>)
                    \o (IF dup.dup THEN <<DuplicateReason(dup.type)>> ELSE <<>>)
                    \o (IF FilteredUrlOf[item] THEN <<"filtered_url">> ELSE <<>>)
            IN  [should_process |-> Len(rejection_reasons) = 0,
                 reasons |-> rejection_reasons,
                 hashes |-> recent_hashes])

\* should_process_article that lets an item with a single reason pass
should_process_article_Lenient(item, existing_articles) ==
    Bind(IF existing_articles # <<>>
         THEN is_duplicate(item, existing_articles)
         ELSE [dup |-> FALSE, type |-> "None", hashes |-> recent_hashes],
         LAMBDA dup :
            LET rejection_reasons ==
                    (IF LowValueOf[item] THEN <<"low_value_content">> ELSE <<>>)
                    \o (IF WireServiceOf[item] THEN <<"wire_service">> ELSE <<>>)
                    \o (IF PrOf[item] THEN <<"pr_content">> ELSE <<>>)
                    \o (IF dup.dup THEN <<DuplicateReason(dup.type)>> ELSE <<>>)
                    \o (IF FilteredUrlOf[item] THEN <<"filtered_url">> ELSE <<>>)
            IN  [should_process |-> Len(rejection_reasons) <= 1,
                 reasons |-> rejection_reasons,
                 hashes |-> dup.hashes])

\* existing_articles is <<>> for None and for an empty list, both falsy:
\* is_duplicate is then not called, and the cache stays as it is
should_process_article(item, existing_articles) ==
    Bind(IF existing_articles # <<>>
         THEN is_duplicate(item, existing_articles)
         ELSE [dup |-> FALSE, type |-> "None", hashes |-> recent_hashes],
         LAMBDA dup :
            LET rejection_reasons ==
                    (IF LowValueOf[item] THEN <<"low_value_content">> ELSE <<>>)
                    \o (IF WireServiceOf[item] THEN <<"wire_service">> ELSE <<>>)
                    \o (IF PrOf[item] THEN <<"pr_content">> ELSE <<>>)
                    \o (IF dup.dup THEN <<DuplicateReason(dup.type)>> ELSE <<>>)
                    \o (IF FilteredUrlOf[item] THEN <<"filtered_url">> ELSE <<>>)
            IN  [should_process |-> Len(rejection_reasons) = 0,
                 reasons |-> rejection_reasons,
                 hashes |-> dup.hashes])

\* CacheExpired with the TTL taken twice
CacheExpired_TwoTtl == now - last_cache_cleanup > 2 * hash_cache_expiry

\* CacheExpired that holds at every call of cleanup_cache
CacheExpired_Always == now >= last_cache_cleanup

\* cleanup_cache: the TTL has run out
CacheExpired == now - last_cache_cleanup > hash_cache_expiry

(***************************************************************************)
(* filter_articles_batch, run by a handler h in steps                      *)
(***************************************************************************)
ReasonKeys ==
    {"low_value_content", "wire_service", "pr_content",
     "duplicate_exact_duplicate", "duplicate_fuzzy_duplicate",
     "duplicate_similar_content", "filtered_url"}

StatKeys == {"total_input", "total_filtered", "processed"} \cup ReasonKeys

NoFrame ==
    [endpoint |-> "none", entries |-> <<>>, article_data |-> <<>>,
     max_lookback_days |-> max_lookback_days, recent_articles |-> <<>>,
     concurrent |-> FALSE,
     k |-> 0, filtered_articles |-> <<>>, verdicts |-> <<>>,
     rejection_stats |-> [s \in StatKeys |-> 0],
     cache_at_start |-> {}, cleanup_at_start |-> 0,
     stored |-> 0, results |-> <<>>,
     stored_articles |-> <<>>, tasks |-> <<>>, refused |-> <<>>,
     db_inactive |-> FALSE]

\* Suspends were the handlers run on threads: control can change hands
\* after every step
Suspends_Preemptive(p) == TRUE

\* the places where a coroutine hands control back to the event loop: the
\* handlers are `async def` and await nothing but request.json()
Suspends(p) == p \in {"idle", "await_json"}

\* handler h may take its next step
MayRun(h) == running = h \/ (running = 0 /\ Suspends(pc[h]))

\* handler h goes to p
Goto(h, p) ==
    /\ pc' = [pc EXCEPT ![h] = p]
    /\ running' = IF Suspends(p) THEN 0 ELSE h

\* reducer.cleanup_cache(), first statement: recent_hashes.clear(); the
\* frame keeps what the cache and its stamp were when the batch started
CleanupCache(h) ==
    /\ pc[h] = "filter" /\ MayRun(h)
    /\ frame' = [frame EXCEPT ![h].cache_at_start = recent_hashes,
                              ![h].cleanup_at_start = last_cache_cleanup]
    /\ IF CacheExpired
       THEN /\ recent_hashes' = {}
            /\ Goto(h, "stamp")
       ELSE /\ UNCHANGED recent_hashes
            /\ Goto(h, "query")
    /\ UNCHANGED <<now, last_cache_cleanup, articles, filtering_stats,
                   deliveries, ticks, call_vars>>

\* second statement: self.last_cache_cleanup = current_time
StampCleanup(h) ==
    /\ pc[h] = "stamp" /\ MayRun(h)
    /\ last_cache_cleanup' = now
    /\ Goto(h, "query")
    /\ UNCHANGED <<now, recent_hashes, articles, filtering_stats, frame,
                   deliveries, ticks, call_vars>>

\* db.query(Article).filter(Article.created_at >= cutoff_date).all()
RecentArticles(lookback) ==
    SelectSeq(articles, LAMBDA a : a.created_at >= now - lookback * 24)

QueryRecent(h) ==
    /\ pc[h] = "query" /\ MayRun(h)
    /\ frame' = [frame EXCEPT
                    ![h].recent_articles =
                        RecentArticles(frame[h].max_lookback_days),
                    ![h].rejection_stats =
                        [s \in StatKeys |->
                            IF s = "total_input" THEN Len(frame[h].article_data) ELSE 0],
                    ![h].k = 1]
    /\ Goto(h, "loop")
    /\ UNCHANGED <<now, recent_hashes, last_cache_cleanup, articles,
                   filtering_stats, deliveries, ticks, call_vars>>

\* Tally with total_filtered counted in the loop over the reasons
Tally_PerReason(stats, v) ==
    [s \in StatKeys |->
        IF v.should_process
        THEN (IF s = "processed" THEN stats[s] + 1 ELSE stats[s])
        ELSE IF s = "total_filtered" THEN stats[s] + Len(v.reasons)
        ELSE IF \E i \in DOMAIN v.reasons : v.reasons[i] = s THEN stats[s] + 1
        ELSE stats[s]]

\* Tally that counts the first reason of a rejected article only
Tally_FirstReason(stats, v) ==
    [s \in StatKeys |->
        IF v.should_process
        THEN (IF s = "processed" THEN stats[s] + 1 ELSE stats[s])
        ELSE IF s = "total_filtered" THEN stats[s] + 1
        ELSE IF v.reasons[1] = s THEN stats[s] + 1
        ELSE stats[s]]

\* rejection_stats after the verdict v of one article
Tally(stats, v) ==
    [s \in StatKeys |->
        IF v.should_process
        THEN (IF s = "processed" THEN stats[s] + 1 ELSE stats[s])
        ELSE IF s = "total_filtered" THEN stats[s] + 1
        ELSE IF \E i \in DOMAIN v.reasons : v.reasons[i] = s THEN stats[s] + 1
        ELSE stats[s]]

\* FilterLoop that puts an accepted item at the head of the output
FilterLoop_Prepend(h) ==
    /\ pc[h] = "loop" /\ MayRun(h)
    /\ IF frame[h].k <= Len(frame[h].article_data)
          /\ Raises(frame[h].article_data[frame[h].k])
       THEN /\ Goto(h, "idle")
            /\ frame' = [frame EXCEPT ![h] = NoFrame]
            /\ UNCHANGED recent_hashes
       ELSE IF frame[h].k <= Len(frame[h].article_data)
       THEN \E item \in {frame[h].article_data[frame[h].k]} :
            \E v \in {should_process_article(item, frame[h].recent_articles)} :
                /\ recent_hashes' = v.hashes
                /\ frame' = [frame EXCEPT
                       ![h].k = @ + 1,
                       ![h].filtered_articles =
                           IF v.should_process THEN <<item>> \o @ ELSE @,
                       ![h].verdicts =
                           Append(@, [should_process |-> v.should_process,
                                      reasons |-> v.reasons]),
                       ![h].rejection_stats = Tally(@, v)]
                /\ UNCHANGED <<pc, running>>
       ELSE /\ Goto(h, CASE frame[h].endpoint = "filtered" -> "stats"
                           [] frame[h].endpoint = "test" -> "results"
                           [] OTHER -> "return")
            /\ UNCHANGED <<recent_hashes, frame>>
    /\ UNCHANGED <<now, last_cache_cleanup, articles, filtering_stats,
                   deliveries, ticks, call_vars>>

\* one turn of `for article_data in articles`, and the return after the last;
\* an exception of should_process_article leaves the loop and the filter and
\* is caught by the handler, which answers with status 500
FilterLoop(h) ==
    /\ pc[h] = "loop" /\ MayRun(h)
    /\ IF frame[h].k <= Len(frame[h].article_data)
          /\ Raises(frame[h].article_data[frame[h].k])
       THEN /\ Goto(h, "idle")
            /\ frame' = [frame EXCEPT ![h] = NoFrame]
            /\ UNCHANGED recent_hashes
       ELSE IF frame[h].k <= Len(frame[h].article_data)
       THEN \E item \in {frame[h].article_data[frame[h].k]} :
            \E v \in {should_process_article(item, frame[h].recent_articles)} :
                /\ recent_hashes' = v.hashes
                /\ frame' = [frame EXCEPT
                       ![h].k = @ + 1,
                       ![h].filtered_articles =
                           IF v.should_process THEN Append(@, item) ELSE @,
                       ![h].verdicts =
                           Append(@, [should_process |-> v.should_process,
                                      reasons |-> v.reasons]),
                       ![h].rejection_stats = Tally(@, v)]
                /\ UNCHANGED <<pc, running>>
       ELSE /\ Goto(h, CASE frame[h].endpoint = "filtered" -> "stats"
                           [] frame[h].endpoint = "test" -> "results"
                           [] OTHER -> "return")
            /\ UNCHANGED <<recent_hashes, frame>>
    /\ UNCHANGED <<now, last_cache_cleanup, articles, filtering_stats,
                   deliveries, ticks, call_vars>>

(***************************************************************************)
(* The web service: the two POST endpoints that filter a delivery          *)
(***************************************************************************)
\* the deliveries: 1 to MaxBatch entries drawn from PayloadItems, or a body
\* without entries (<<>>)
RECURSIVE SeqsUpTo(_, _)
SeqsUpTo(S, n) ==
    IF n = 0 THEN {<<>>}
    ELSE LET shorter == SeqsUpTo(S, n - 1)
         IN  shorter \cup {Append(q, x) : q \in {r \in shorter : Len(r) = n - 1}, x \in S}

Payloads == SeqsUpTo(PayloadItems, MaxBatch)

Endpoints == {"filtered", "test"}

\* a request arrives; its handler starts and waits for the body
Deliver(h, endpoint, entries) ==
    /\ pc[h] = "idle"
    /\ deliveries < MaxDeliveries
    /\ deliveries' = deliveries + 1
    /\ frame' = [frame EXCEPT ![h] =
                    [NoFrame EXCEPT !.endpoint = endpoint, !.entries = entries]]
    /\ pc' = [pc EXCEPT ![h] = "await_json"]
    /\ UNCHANGED <<now, recent_hashes, last_cache_cleanup, articles,
                   filtering_stats, running, ticks, call_vars>>

\* data = await request.json(); the entries are extracted and converted
\* ("content": entry.content or ""), or the handler answers "no_entries"
ExtractEntries(h) ==
    /\ pc[h] = "await_json" /\ MayRun(h)
    /\ Goto(h, IF frame[h].entries = <<>> THEN "idle" ELSE "filter")
    /\ frame' = [frame EXCEPT ![h] =
                    IF frame[h].entries = <<>> THEN NoFrame
                    ELSE [@ EXCEPT !.article_data =
                              [i \in DOMAIN frame[h].entries |->
                                  OrEmptyItem[frame[h].entries[i]]],
                              \* another request is in flight meanwhile
                              !.concurrent =
                                  \E g \in Handlers \ {h} : pc[g] = "await_json"]]
    /\ UNCHANGED <<now, recent_hashes, last_cache_cleanup, articles,
                   filtering_stats, deliveries, ticks, call_vars>>

\* round((total_filtered / total_input) * 100, 1) if total_input > 0 else 0,
\* in tenths of a percent
RoundedPercent(total_filtered, total_input) ==
    IF total_input > 0
    THEN (2 * 1000 * total_filtered + total_input) \div (2 * total_input)
    ELSE 0

\* "Update global stats" and "Store batch stats" of filtered_webhook_handler
UpdateStats(h) ==
    /\ pc[h] = "stats" /\ MayRun(h)
    /\ LET filter_stats == frame[h].rejection_stats
           batch_stats == [input |-> filter_stats["total_input"],
                           filtered |-> filter_stats["total_filtered"],
                           processed |-> filter_stats["processed"],
                           reduction_pct |->
                               RoundedPercent(filter_stats["total_filtered"],
                                              filter_stats["total_input"])]
           appended == Append(filtering_stats.recent_batches, batch_stats)
       IN  filtering_stats' =
               [session_total |->
                    filtering_stats.session_total + filter_stats["total_input"],
                session_filtered |->
                    filtering_stats.session_filtered + filter_stats["total_filtered"],
                session_processed |->
                    filtering_stats.session_processed + filter_stats["processed"],
                recent_batches |->
                    IF Len(appended) > 20
                    THEN SubSeq(appended, Len(appended) - 19, Len(appended))
                    ELSE appended]
    /\ frame' = [frame EXCEPT ![h].k = 1]
    /\ Goto(h, "store")
    /\ UNCHANGED <<now, recent_hashes, last_cache_cleanup, articles,
                   deliveries, ticks, call_vars>>

\* one turn of `for article_data in filtered_articles`: the article is
\* stored with created_at = utcnow() and process_with_stage_a is queued with
\* its id, or db.commit() raises and the loop continues; after the last turn
\* the handler answers.  The commit raises when the database refuses the
\* insert, and, the handler never calling db.rollback(), at every commit
\* that follows on the session of the request.
StoreLoop(h) ==
    /\ pc[h] = "store" /\ MayRun(h)
    /\ IF frame[h].k <= Len(frame[h].filtered_articles)
       THEN /\ \E refuses \in BOOLEAN :
              \E ok \in {~refuses /\ ~frame[h].db_inactive} :
                /\ articles' =
                       IF ok
                       THEN Append(articles,
                                   [item |-> frame[h].filtered_articles[frame[h].k],
                                    created_at |-> now])
                       ELSE articles
                /\ frame' = [frame EXCEPT
                       ![h].k = @ + 1,
                       ![h].stored = IF ok THEN @ + 1 ELSE @,
                       ![h].stored_articles =
                           IF ok THEN Append(@, Len(articles) + 1) ELSE @,
                       ![h].tasks =
                           IF ok THEN Append(@, Len(articles) + 1) ELSE @,
                       ![h].refused = Append(@, refuses),
                       ![h].db_inactive = ~ok]
            /\ UNCHANGED <<pc, running, answered>>
       ELSE /\ Goto(h, "idle")
            /\ frame' = [frame EXCEPT ![h] = NoFrame]
            /\ answered' = [article_data |-> frame[h].article_data,
                            has_window |-> frame[h].recent_articles # <<>>,
                            verdicts |-> frame[h].verdicts,
                            stored |-> frame[h].stored,
                            concurrent |-> frame[h].concurrent,
                            cleanup |-> last_cache_cleanup]
            /\ UNCHANGED articles
    /\ UNCHANGED <<now, recent_hashes, last_cache_cleanup, filtering_stats,
                   deliveries, ticks, call, prev_call, ncalls, probe,
                   stage_vars, reported>>

\* test_filter_endpoint after the filter: every entry is decided once more,
\* without a window
TestResults(h) ==
    /\ pc[h] = "results" /\ MayRun(h)
    /\ frame' = [frame EXCEPT ![h].results =
                    [i \in DOMAIN frame[h].article_data |->
                        LET v == should_process_article(frame[h].article_data[i], <<>>)
                        IN  [will_process |-> v.should_process,
                             filter_reasons |-> v.reasons]]]
    /\ Goto(h, "respond")
    /\ UNCHANGED <<now, recent_hashes, last_cache_cleanup, articles,
                   filtering_stats, deliveries, ticks, call_vars>>

\* the keys of one element of article_data in test_filter_endpoint
ArticleDataKeys == {"id", "title", "content", "url"}

\* "summary" of the report of test_filter_endpoint.  The loop over the
\* results is `for article_data in article_data`: when the summary is built
\* the name is bound to the last element, a dict, and len() counts its keys
TestSummary(h) ==
    [total_articles |-> Cardinality(ArticleDataKeys),
     would_filter |-> frame[h].rejection_stats["total_filtered"],
     would_process |-> frame[h].rejection_stats["processed"]]

\* test_filter_endpoint returns its report
TestRespond(h) ==
    /\ pc[h] = "respond" /\ MayRun(h)
    /\ frame' = [frame EXCEPT ![h] = NoFrame]
    /\ Goto(h, "idle")
    /\ UNCHANGED <<now, recent_hashes, last_cache_cleanup, articles,
                   filtering_stats, deliveries, ticks, call_vars>>

\* time passes while the event loop runs no handler
Tick ==
    /\ running = 0
    /\ ticks < MaxTicks
    /\ ticks' = ticks + 1
    /\ now' = now + TickHours
    /\ UNCHANGED <<recent_hashes, last_cache_cleanup, articles,
                   filtering_stats, pc, running, frame, deliveries, call_vars>>

NoCall ==
    [op |-> "none", item |-> 0, window |-> <<>>, at |-> 0, cached |-> FALSE,
     grew |-> FALSE, same_window |-> FALSE, dup |-> FALSE, type |-> "None",
     should_process |-> FALSE, reasons |-> <<>>, fn |-> "none"]

NoProbe == [fn |-> "none"]

\* what is kept of an answered delivery: its articles, whether the window
\* of its filter held any article, the verdicts, the number of articles
\* stored, whether another request was in flight meanwhile, and the time of
\* the last reset of the cache
NoAnswer ==
    [article_data |-> <<>>, has_window |-> FALSE, verdicts |-> <<>>,
     stored |-> 0, concurrent |-> FALSE, cleanup |-> 0]

NoResult ==
    [op |-> "none", item |-> 0, dup |-> FALSE, type |-> "None",
     should_process |-> FALSE, reasons |-> <<>>]

\* the state after the module is loaded, the articles table and the text
\* functions apart
\* GET /filtering/stats was not called yet
NoReport ==
    [total_input |-> 0, total_filtered |-> 0, total_processed |-> 0,
     recent_batches |-> <<>>, calls |-> 0]

\* the articles stored when the analysis starts, by id, and the ids a
\* task can be queued with (the last is of no stored article)
StageArticles == {1, 2}

TaskIds == {1, 2, 3}

\* runs of process_with_stage_a and direct calls of store_stage_a_response
MaxRuns == 4

\* store_filtered_article: status = "pending"
InitialStatus ==
    [a \in StageArticles |-> [status |-> "pending", processing_error |-> "none"]]

\* no run in progress.  inactive: the transaction of the session was rolled
\* back by a failed flush and db.rollback() has not been called since;
\* exc: the exception caught; refused: commits the database refused;
\* propagated: an exception left process_article_pipeline
NoRun ==
    [pc |-> "idle", fn |-> "none", article_id |-> 0, response |-> "none",
     inactive |-> FALSE, exc |-> "none", refused |-> 0, stored |-> FALSE,
     rolled_back |-> FALSE, propagated |-> FALSE, result |-> "none",
     table_before |-> <<>>]

\* filtering_stats when the service starts
NoStats ==
    [session_total |-> 0, session_filtered |-> 0, session_processed |-> 0,
     recent_batches |-> <<>>]

InitReducer ==
    /\ now = 0
    /\ recent_hashes = {}
    /\ last_cache_cleanup = 0
    /\ pc = [h \in Handlers |-> "idle"]
    /\ running = 0
    /\ frame = [h \in Handlers |-> NoFrame]
    /\ deliveries = 0
    /\ ticks = 0
    /\ call = NoCall
    /\ prev_call = NoResult
    /\ ncalls = 0
    /\ answered = NoAnswer
    /\ article_status = InitialStatus
    /\ processed_articles = <<>>
    /\ run = NoRun
    /\ reported = NoReport

Init ==
    InitReducer /\ filtering_stats = NoStats /\ articles \in InitialArticles /\ probe = NoProbe

Next ==
    \/ \E h \in Handlers, e \in Endpoints, entries \in Payloads :
           Deliver(h, e, entries)
    \/ \E h \in Handlers : ExtractEntries(h)
    \/ \E h \in Handlers : CleanupCache(h)
    \/ \E h \in Handlers : StampCleanup(h)
    \/ \E h \in Handlers : QueryRecent(h)
    \/ \E h \in Handlers : FilterLoop(h)
    \/ \E h \in Handlers : UpdateStats(h)
    \/ \E h \in Handlers : StoreLoop(h)
    \/ \E h \in Handlers : TestResults(h)
    \/ \E h \in Handlers : TestRespond(h)
    \/ Tick

Spec == Init /\ [][Next]_vars

(***************************************************************************)
(* The reducer called directly: is_duplicate and should_process_article    *)
(* on a candidate and a window the caller brings                           *)
(***************************************************************************)
\* the windows a caller can bring at the present time
Windows ==
    {[i \in DOMAIN w |-> [item |-> w[i][1], created_at |-> now - w[i][2]]] :
        w \in SeqsUpTo(WindowArticles, MaxWindow)}

\* what the call before returned, kept when it had the same operation and
\* item
Remember(op, item) ==
    IF call.op = op /\ call.item = item
    THEN [op |-> call.op, item |-> call.item, dup |-> call.dup, type |-> call.type,
          should_process |-> call.should_process, reasons |-> call.reasons]
    ELSE NoResult

\* the call before had this operation, item and window
Repeats(op, item, window) ==
    call.op = op /\ call.item = item /\ call.window = window

\* a call that raises returns nothing: it is recorded with op "raised" and
\* the function called in fn
Raised(fn, item, window) ==
    [NoCall EXCEPT !.op = "raised", !.fn = fn, !.item = item,
                   !.window = window, !.at = now]

CallIsDuplicate(item, window) ==
    /\ ncalls < MaxCalls
    /\ ncalls' = ncalls + 1
    /\ IF Raises(item)
       THEN /\ call' = Raised("is_duplicate", item, window)
            /\ UNCHANGED recent_hashes
       ELSE \E r \in {is_duplicate(item, window)} :
        /\ recent_hashes' = r.hashes
        /\ call' = [op |-> "is_duplicate", item |-> item, window |-> window,
                    at |-> now, cached |-> SignatureOf[item] \in recent_hashes,
                    grew |-> r.hashes # recent_hashes,
                    same_window |-> Repeats("is_duplicate", item, window),
                    dup |-> r.dup, type |-> r.type,
                    should_process |-> FALSE, reasons |-> <<>>,
                    fn |-> "is_duplicate"]
    /\ prev_call' = Remember("is_duplicate", item)
    /\ UNCHANGED <<now, last_cache_cleanup, ticks, web_vars, probe, stage_vars,
                   reported>>

CallShouldProcess(item, window) ==
    /\ ncalls < MaxCalls
    /\ ncalls' = ncalls + 1
    /\ IF Raises(item)
       THEN /\ call' = Raised("should_process_article", item, window)
            /\ UNCHANGED recent_hashes
       ELSE \E v \in {should_process_article(item, window)} :
        /\ recent_hashes' = v.hashes
        /\ call' = [op |-> "should_process_article", item |-> item,
                    window |-> window, at |-> now,
                    cached |-> SignatureOf[item] \in recent_hashes,
                    grew |-> v.hashes # recent_hashes,
                    same_window |-> Repeats("should_process_article", item, window),
                    dup |-> FALSE, type |-> "None",
                    should_process |-> v.should_process, reasons |-> v.reasons,
                    fn |-> "should_process_article"]
    /\ prev_call' = Remember("should_process_article", item)
    /\ UNCHANGED <<now, last_cache_cleanup, ticks, web_vars, probe, stage_vars,
                   reported>>

InitDetect == Init /\ articles = <<>>

NextDetect ==
    \/ \E item \in DetectItems, window \in Windows : CallIsDuplicate(item, window)
    \/ \E item \in DetectItems, window \in Windows : CallShouldProcess(item, window)

SpecDetect == InitDetect /\ [][NextDetect]_vars

(***************************************************************************)
(* filter_articles_batch called directly, with a lookback the caller       *)
(* chooses.  The function is synchronous: it runs from cleanup to return   *)
(* in the steps of the handlers' filter, the caller holding the control.   *)
(***************************************************************************)
CallBatch(h, batch, lookback) ==
    /\ running = 0 /\ \A g \in Handlers : pc[g] = "idle"
    /\ ncalls < MaxCalls
    /\ ncalls' = ncalls + 1
    /\ frame' = [frame EXCEPT ![h] =
                    [NoFrame EXCEPT !.endpoint = "direct",
                                    !.article_data = batch,
                                    !.max_lookback_days = lookback]]
    /\ Goto(h, "filter")
    /\ UNCHANGED <<now, recent_hashes, last_cache_cleanup, articles,
                   filtering_stats, deliveries, ticks, call, prev_call, probe,
                   answered, stage_vars, reported>>

\* return filtered_articles, rejection_stats
ReturnBatch(h) ==
    /\ pc[h] = "return" /\ MayRun(h)
    /\ frame' = [frame EXCEPT ![h] = NoFrame]
    /\ Goto(h, "idle")
    /\ UNCHANGED <<now, recent_hashes, last_cache_cleanup, articles,
                   filtering_stats, deliveries, ticks, call_vars>>

InitBatch ==
    InitReducer /\ filtering_stats = NoStats /\ articles \in BatchArticles /\ probe = NoProbe

BatchPayloads == SeqsUpTo(BatchItems, MaxBatch)

NextBatch ==
    \/ \E batch \in BatchPayloads, lookback \in Lookbacks :
           CallBatch(1, batch, lookback)
    \/ CleanupCache(1)
    \/ StampCleanup(1)
    \/ QueryRecent(1)
    \/ FilterLoop(1)
    \/ ReturnBatch(1)
    \/ Tick

SpecBatch == InitBatch /\ [][NextBatch]_vars

(***************************************************************************)
(* The session statistics: the filtered webhook on a service that has      *)
(* answered deliveries before, and GET /filtering/stats                    *)
(***************************************************************************)
\* "Keep only last 20 batch records", and recent_batches[-10:]
KeptBatches == 20

ReportedBatches == 10

\* records[-n:] that keeps the first n
LastRecords_First(records, n) ==
    IF Len(records) > n THEN SubSeq(records, 1, n) ELSE records

\* records[-n:]
LastRecords(records, n) ==
    IF Len(records) > n
    THEN SubSeq(records, Len(records) - n + 1, Len(records))
    ELSE records

\* the statistics after n deliveries, the i-th of i entries that were all
\* accepted and none of them stored
StatsAfter(n) ==
    [session_total |-> (n * (n + 1)) \div 2,
     session_filtered |-> 0,
     session_processed |-> (n * (n + 1)) \div 2,
     recent_batches |->
         [i \in 1..n |-> [input |-> i, filtered |-> 0, processed |-> i,
                          reduction_pct |-> 0]]]

\* deliveries answered before the first step
EarlierDeliveries == {0, 9, 10, 19, 20}

\* get_filtering_statistics
GetStatistics ==
    /\ running = 0
    /\ reported.calls < MaxCalls
    /\ reported' =
           [total_input |-> filtering_stats.session_total,
            total_filtered |-> filtering_stats.session_filtered,
            total_processed |-> filtering_stats.session_processed,
            recent_batches |->
                LastRecords(filtering_stats.recent_batches, ReportedBatches),
            calls |-> reported.calls + 1]
    /\ UNCHANGED <<now, recent_hashes, last_cache_cleanup, ticks, web_vars,
                   call, prev_call, ncalls, probe, stage_vars>>

InitStats ==
    /\ InitReducer
    /\ \E n \in EarlierDeliveries : filtering_stats = StatsAfter(n)
    /\ articles = <<>>
    /\ probe = NoProbe

NextStats ==
    \/ \E entries \in Payloads : Deliver(1, "filtered", entries)
    \/ ExtractEntries(1)
    \/ CleanupCache(1)
    \/ StampCleanup(1)
    \/ QueryRecent(1)
    \/ FilterLoop(1)
    \/ UpdateStats(1)
    \/ StoreLoop(1)
    \/ GetStatistics
    \/ Tick

SpecStats == InitStats /\ [][NextStats]_vars

(***************************************************************************)
(* Stage-A analysis of a stored article: process_with_stage_a, the         *)
(* background task of the webhook, and store_stage_a_response called       *)
(* directly.  requests.post blocks, so a run never yields the event loop   *)
(* and runs are one after the other.                                       *)
(***************************************************************************)
\* what Stage-A can answer: "success" true or false in the response
Responses == {"success", "no_success"}

\* UniqueConstraint('article_id', name='uq_article_id')
UniqueArticleId(table) ==
    \A i, j \in DOMAIN table :
        table[i].article_id = table[j].article_id => i = j

\* store_stage_a_response that never looks for an existing record
store_stage_a_response_AlwaysAdd(table, article_id, response) ==
    Append(table, [article_id |-> article_id,
                   stage_a_success |-> response = "success",
                   updated |-> FALSE])

\* store_stage_a_response up to its commit: the table as the session holds
\* it, the first record of the article updated or a new record added
store_stage_a_response(table, article_id, response) ==
    LET existing == {i \in DOMAIN table : table[i].article_id = article_id}
    IN  IF existing # {}
        THEN [table EXCEPT ![CHOOSE i \in existing : \A j \in existing : i <= j] =
                  [article_id |-> article_id,
                   stage_a_success |-> response = "success",
                   updated |-> TRUE]]
        ELSE Append(table, [article_id |-> article_id,
                            stage_a_success |-> response = "success",
                            updated |-> FALSE])

stage_frame ==
    <<now, recent_hashes, last_cache_cleanup, ticks, web_vars, call,
      prev_call, probe, reported>>

\* process_with_stage_a(article_id): a new session, the article fetched;
\* an id of no article returns None
StartRun(a) ==
    /\ run.pc = "idle"
    /\ ncalls < MaxRuns
    /\ ncalls' = ncalls + 1
    /\ run' = [NoRun EXCEPT !.fn = "process_with_stage_a", !.article_id = a,
                            !.pc = IF a \in StageArticles THEN "mark" ELSE "returned",
                            !.table_before = processed_articles]
    /\ UNCHANGED <<article_status, processed_articles, stage_frame>>

\* article.status = "processing"; db.commit()
MarkProcessing ==
    /\ run.pc = "mark"
    /\ \E refuses \in BOOLEAN :
          IF refuses
          THEN /\ run' = [run EXCEPT !.pc = "except", !.exc = "commit",
                                     !.inactive = TRUE, !.refused = @ + 1]
               /\ UNCHANGED article_status
          ELSE /\ run' = [run EXCEPT !.pc = "analyze"]
               /\ article_status' =
                      [article_status EXCEPT ![run.article_id].status = "processing"]
    /\ UNCHANGED <<processed_articles, ncalls, stage_frame>>

\* stage_a_response = await self.analyze_article(article.url)
AnalyzeArticle ==
    /\ run.pc = "analyze"
    /\ \/ \E r \in Responses : run' = [run EXCEPT !.pc = "store", !.response = r]
       \/ run' = [run EXCEPT !.pc = "except", !.exc = "stage_a"]
    /\ UNCHANGED <<article_status, processed_articles, ncalls, stage_frame>>

\* store_stage_a_response: the commit, or db.rollback() and raise
StoreResponse ==
    /\ run.pc = "store"
    /\ \E refuses \in BOOLEAN :
       \E pending \in {store_stage_a_response(processed_articles,
                                              run.article_id, run.response)} :
       \E ok \in {~refuses /\ UniqueArticleId(pending)} :
          /\ processed_articles' = IF ok THEN pending ELSE processed_articles
          /\ run' = [run EXCEPT
                 !.pc = CASE ok /\ run.fn = "process_with_stage_a" -> "complete"
                          [] ok -> "returned"
                          [] run.fn = "process_with_stage_a" -> "except"
                          [] OTHER -> "raised",
                 !.stored = ok,
                 !.result = IF ok THEN "processed" ELSE "none",
                 !.exc = IF ok THEN @ ELSE "store",
                 !.rolled_back = ~ok,
                 !.refused = IF refuses THEN @ + 1 ELSE @]
    /\ UNCHANGED <<article_status, ncalls, stage_frame>>

\* article.status = "completed"; db.commit(); return processed_article
CompleteArticle ==
    /\ run.pc = "complete"
    /\ \E refuses \in BOOLEAN :
          IF refuses
          THEN /\ run' = [run EXCEPT !.pc = "except", !.exc = "commit",
                                     !.inactive = TRUE, !.refused = @ + 1,
                                     !.result = "none"]
               /\ UNCHANGED article_status
          ELSE /\ run' = [run EXCEPT !.pc = "returned"]
               /\ article_status' =
                      [article_status EXCEPT ![run.article_id].status = "completed"]
    /\ UNCHANGED <<processed_articles, ncalls, stage_frame>>

\* except Exception as e: article.status = "failed"; processing_error =
\* str(e); db.commit(); return None.  The commit raises on a session whose
\* transaction is inactive, and the exception leaves the function.
MarkFailed ==
    /\ run.pc = "except"
    /\ \E refuses \in BOOLEAN :
          IF refuses \/ run.inactive
          THEN /\ run' = [run EXCEPT !.pc = "returned", !.propagated = TRUE,
                                     !.inactive = TRUE,
                                     !.refused = IF run.inactive THEN @ ELSE @ + 1]
               /\ UNCHANGED article_status
          ELSE /\ run' = [run EXCEPT !.pc = "returned"]
               /\ article_status' =
                      [article_status EXCEPT ![run.article_id] =
                          [status |-> "failed", processing_error |-> run.exc]]
    /\ UNCHANGED <<processed_articles, ncalls, stage_frame>>

\* process_with_stage_a returns (finally: db.close()), or the direct call
\* returns or raises
EndRun ==
    /\ run.pc \in {"returned", "raised"}
    /\ run' = NoRun
    /\ UNCHANGED <<article_status, processed_articles, ncalls, stage_frame>>

\* store_stage_a_response(db, article_id, stage_a_response) called directly
CallStore(a, r) ==
    /\ run.pc = "idle"
    /\ ncalls < MaxRuns
    /\ ncalls' = ncalls + 1
    /\ run' = [NoRun EXCEPT !.fn = "store_stage_a_response", !.article_id = a,
                            !.response = r, !.pc = "store",
                            !.table_before = processed_articles]
    /\ UNCHANGED <<article_status, processed_articles, stage_frame>>

InitStageA ==
    InitReducer /\ filtering_stats = NoStats /\ articles = <<>> /\ probe = NoProbe

NextStageA ==
    \/ \E a \in TaskIds : StartRun(a)
    \/ MarkProcessing
    \/ AnalyzeArticle
    \/ StoreResponse
    \/ CompleteArticle
    \/ MarkFailed
    \/ EndRun
    \/ \E a \in StageArticles, r \in Responses : CallStore(a, r)

SpecStageA == InitStageA /\ [][NextStageA]_vars

(***************************************************************************)
(* The text functions called directly: _normalize_text on every short text *)
(* over a small alphabet                                                   *)
(***************************************************************************)
MaxText == 5

\* a stop word in both cases, a letter that is none, two kinds of
\* whitespace and a punctuation mark
TextAlphabet == {"a", "A", "x", " ", "\n", ","}

Texts == UNION {[1..n -> TextAlphabet] : n \in 0..MaxText}

\* titles and bodies create_content_signature is called on
SignatureInputs ==
    <<
       \* 1: the reference
       [title |-> <<"R", "a", "t", "e", "s", " ", "r", "i", "s", "e">>,
        content |-> Body_rates],
       \* 2: 1 in other case and punctuation
       [title |-> <<"R", "A", "T", "E", "S", " ", "r", "i", "s", "e", "!">>,
        content |-> Body_rates],
       \* 3: 1 with a stop word more
       [title |-> <<"T", "h", "e", " ", "r", "a", "t", "e", "s", " ", "r", "i", "s", "e">>,
        content |-> Body_rates],
       \* 4: another title
       [title |-> <<"R", "a", "t", "e", "s", " ", "f", "a", "l", "l">>,
        content |-> Body_rates],
       \* 5: a word of the title of 1 moved to the body
       [title |-> <<"R", "a", "t", "e", "s">>,
        content |-> <<"r", "i", "s", "e", " ">> \o Body_rates],
       \* 6: a body as long as the prefix
       [title |-> <<"R", "a", "t", "e", "s", " ", "r", "i", "s", "e">>,
        content |-> Cycle(LowerAlpha, ExactPrefixLen)],
       \* 7, 8: 6 with more text after the prefix
       [title |-> <<"R", "a", "t", "e", "s", " ", "r", "i", "s", "e">>,
        content |-> Cycle(LowerAlpha, ExactPrefixLen) \o <<"x">>],
       [title |-> <<"R", "a", "t", "e", "s", " ", "r", "i", "s", "e">>,
        content |-> Cycle(LowerAlpha, ExactPrefixLen) \o <<"y", " ", "z">>],
       \* 9: 6 with another last character of the prefix
       [title |-> <<"R", "a", "t", "e", "s", " ", "r", "i", "s", "e">>,
        content |-> Cycle(LowerAlpha, ExactPrefixLen - 1) \o <<"x">>],
       \* 10, 11: bodies that differ in punctuation at the end of the prefix
       [title |-> <<"R", "a", "t", "e", "s", " ", "r", "i", "s", "e">>,
        content |-> Cycle(LowerAlpha, ExactPrefixLen - 1) \o <<"!">>],
       [title |-> <<"R", "a", "t", "e", "s", " ", "r", "i", "s", "e">>,
        content |-> Cycle(LowerAlpha, ExactPrefixLen - 1) \o <<"?", "x">>],
       \* 12: nothing
       [title |-> <<>>,
        content |-> <<>>] >>

\* create_content_signature of each of them
SignatureOfInput ==
    [i \in DOMAIN SignatureInputs |->
        create_content_signature(SignatureInputs[i].title,
                                 SignatureInputs[i].content)]

\* titles and bodies create_fuzzy_signature is called on
FuzzyInputs ==
    <<
       \* 1: the reference
       [title |-> <<"R", "a", "t", "e", "s", " ", "r", "i", "s", "e">>,
        content |-> <<"C", "e", "n", "t", "r", "a", "l", " ", "b", "a", "n", "k", " ", "l", "i", "f", "t", "s", " ", "r", "a", "t", "e", "s">>],
       \* 2: 1 with its words in another order
       [title |-> <<"r", "i", "s", "e", " ", "R", "a", "t", "e", "s">>,
        content |-> <<"l", "i", "f", "t", "s", " ", "b", "a", "n", "k", " ", "C", "e", "n", "t", "r", "a", "l", " ", "r", "a", "t", "e", "s">>],
       \* 3: 1 in other case, with words repeated
       [title |-> <<"R", "A", "T", "E", "S", " ", "R", "I", "S", "E", " ", "r", "i", "s", "e">>,
        content |-> <<"c", "e", "n", "t", "r", "a", "l", " ", "B", "A", "N", "K", " ", "l", "i", "f", "t", "s", " ", "r", "a", "t", "e", "s", " ", "r", "a", "t", "e", "s">>],
       \* 4: the words of 1 divided otherwise between title and body
       [title |-> <<"C", "e", "n", "t", "r", "a", "l", " ", "b", "a", "n", "k">>,
        content |-> <<"l", "i", "f", "t", "s", " ", "r", "a", "t", "e", "s", " ", "r", "i", "s", "e">>],
       \* 5: another word
       [title |-> <<"R", "a", "t", "e", "s", " ", "f", "a", "l", "l">>,
        content |-> <<"C", "e", "n", "t", "r", "a", "l", " ", "b", "a", "n", "k", " ", "l", "i", "f", "t", "s", " ", "r", "a", "t", "e", "s">>],
       \* 6, 7: words after the prefix of the body
       [title |-> <<"R", "a", "t", "e", "s", " ", "r", "i", "s", "e">>,
        content |-> Rep("1", FuzzyPrefixLen) \o <<" ", "e", "x", "t", "r", "a">>],
       [title |-> <<"R", "a", "t", "e", "s", " ", "r", "i", "s", "e">>,
        content |-> Rep("1", FuzzyPrefixLen) \o <<" ", "o", "t", "h", "e", "r", " ", "w", "o", "r", "d", "s">>],
       \* 8, 9: a word cut by the end of the prefix, and the part of it that is left
       [title |-> <<"R", "a", "t", "e", "s", " ", "r", "i", "s", "e">>,
        content |-> Rep("1", FuzzyPrefixLen - 5) \o <<" ", "w", "i", "n", "d", "o", "w">>],
       [title |-> <<"R", "a", "t", "e", "s", " ", "r", "i", "s", "e">>,
        content |-> Rep("1", FuzzyPrefixLen - 5) \o <<" ", "w", "i", "n", "d">>],
       \* 10, 11: twelve key words, the first ten of them the same
       [title |-> <<"A", "l", "p", "h", "a">>,
        content |-> <<"b", "r", "a", "v", "o", " ", "c", "h", "a", "r", "l", "i", "e", " ", "d", "e", "l", "t", "a", " ", "e", "c", "h", "o", "e", "s", " ", "f", "o", "x", "t", "r", "o", "t", " ", "g", "o", "l", "f", " ", "h", "o", "t", "e", "l", " ", "i", "n", "d", "i", "a", " ", "j", "u", "l", "i", "e", "t", " ", "k", "i", "l", "o", " ", "z", "u", "l", "u">>],
       [title |-> <<"A", "l", "p", "h", "a">>,
        content |-> <<"b", "r", "a", "v", "o", " ", "c", "h", "a", "r", "l", "i", "e", " ", "d", "e", "l", "t", "a", " ", "e", "c", "h", "o", "e", "s", " ", "f", "o", "x", "t", "r", "o", "t", " ", "g", "o", "l", "f", " ", "h", "o", "t", "e", "l", " ", "i", "n", "d", "i", "a", " ", "j", "u", "l", "i", "e", "t", " ", "l", "i", "m", "a">>],
       \* 12: words that are no key words
       [title |-> <<"R", "a", "t", "e", "s", ",", " ", "r", "i", "s", "e">>,
        content |-> <<"u", "p", " ", "t", "o", " ", "4", "x", " ", "b", "a", "n", "k", "2", " ", "r", "i", "s", "e", "_", " ", "r", "a", "t", "e", "s">>] >>

\* create_fuzzy_signature of each of them
FuzzyOfInput ==
    [i \in DOMAIN FuzzyInputs |->
        create_fuzzy_signature(FuzzyInputs[i].title, FuzzyInputs[i].content)]

text_vars ==
    <<now, recent_hashes, last_cache_cleanup, ticks, web_vars, call,
      prev_call, ncalls, stage_vars, reported>>

\* the arguments a caller brings to a text function
ProbeInputs ==
    {[fn |-> "none", of |-> "_normalize_text", x |-> x] : x \in Texts}
    \cup {[fn |-> "none", of |-> "create_content_signature", i |-> i, j |-> j] :
              i \in DOMAIN SignatureInputs, j \in DOMAIN SignatureInputs}
    \cup {[fn |-> "none", of |-> "create_fuzzy_signature", i |-> i, j |-> j] :
              i \in DOMAIN FuzzyInputs, j \in DOMAIN FuzzyInputs}

\* _normalize_text(x), and _normalize_text of what it returned
Normalize ==
    /\ probe.fn = "none" /\ probe.of = "_normalize_text"
    /\ \E out \in {_normalize_text(probe.x)} :
           probe' = [fn |-> "_normalize_text", x |-> probe.x, out |-> out,
                     again |-> _normalize_text(out)]
    /\ UNCHANGED text_vars

\* create_content_signature on one input and then on another
Sign ==
    /\ probe.fn = "none" /\ probe.of = "create_content_signature"
    /\ probe' = [fn |-> "create_content_signature", i |-> probe.i,
                 j |-> probe.j, first |-> SignatureOfInput[probe.i],
                 second |-> SignatureOfInput[probe.j]]
    /\ UNCHANGED text_vars

\* create_fuzzy_signature on one input and then on another
FuzzySign ==
    /\ probe.fn = "none" /\ probe.of = "create_fuzzy_signature"
    /\ probe' = [fn |-> "create_fuzzy_signature", i |-> probe.i,
                 j |-> probe.j, first |-> FuzzyOfInput[probe.i],
                 second |-> FuzzyOfInput[probe.j]]
    /\ UNCHANGED text_vars

InitText ==
    InitReducer /\ filtering_stats = NoStats /\ articles = <<>> /\ probe \in ProbeInputs

NextText ==
    \/ Normalize
    \/ Sign
    \/ FuzzySign

SpecText == InitText /\ [][NextText]_vars

(***************************************************************************)
(* Properties                                                              *)
(***************************************************************************)
DuplicateReasons ==
    {"duplicate_exact_duplicate", "duplicate_fuzzy_duplicate",
     "duplicate_similar_content"}

HasReason(reasons, r) == \E i \in DOMAIN reasons : reasons[i] = r

HasDuplicateReason(reasons) ==
    \E i \in DOMAIN reasons : reasons[i] \in DuplicateReasons

SameTitleBody(a, b) ==
    Corpus[a].title = Corpus[b].title /\ Corpus[a].content = Corpus[b].content

TriggersNoClassifier(item) ==
    ~LowValueOf[item] /\ ~WireServiceOf[item] /\ ~PrOf[item] /\ ~FilteredUrlOf[item]

\* filter_articles_batch has returned to handler h, which has not gone on
FilterReturned(h) == pc[h] \in {"stats", "results"}

\* C1: when filter_articles_batch returns, total_input is the number of
\* input items, processed the number of accepted items returned,
\* total_filtered the number of input items less the accepted ones, and
\* total_input = total_filtered + processed
C1_BatchStatistics ==
    \A h \in Handlers : FilterReturned(h) =>
        LET stats == frame[h].rejection_stats
            items == Len(frame[h].article_data)
            accepted == Len(frame[h].filtered_articles)
        IN  /\ stats["total_input"] = items
            /\ stats["processed"] = accepted
            /\ stats["total_filtered"] = items - accepted
            /\ stats["total_input"] = stats["total_filtered"] + stats["processed"]

\* a batch returned with an accepted item and a rejected one, decided
\* against a window and a cache that were not empty
C1_Witness ==
    \E h \in Handlers :
        /\ FilterReturned(h)
        /\ frame[h].rejection_stats["processed"] >= 1
        /\ frame[h].rejection_stats["total_filtered"] >= 1
        /\ frame[h].recent_articles # <<>>
        /\ frame[h].cache_at_start # {}

\* C2: of two items of one batch with the same title and body, the first
\* triggering no classifier and reported no duplicate, the first is accepted
\* and the second rejected with duplicate_exact_duplicate, whatever the
\* window of the batch
C2_SecondTwinIsExactDuplicate ==
    \A h \in Handlers :
        LET data == frame[h].article_data
            verdicts == frame[h].verdicts
        IN  \A i, j \in DOMAIN verdicts :
                ( /\ i < j
                  /\ SameTitleBody(data[i], data[j])
                  /\ \A k \in 1..(i - 1) : ~SameTitleBody(data[k], data[i])
                  /\ TriggersNoClassifier(data[i])
                  /\ ~HasDuplicateReason(verdicts[i].reasons) )
                => /\ verdicts[i].should_process
                   /\ HasReason(verdicts[j].reasons, "duplicate_exact_duplicate")

\* C3: while one batch is in the middle of the reset of the cache (cleared,
\* not yet stamped) the event loop is its handler's, and every other handler
\* is waiting for its request or idle: no lookup, insertion or reset of
\* another batch can run before the reset is complete
C3_CacheAccessExclusive ==
    \A h1 \in Handlers : pc[h1] = "stamp" =>
        /\ running = h1
        /\ \A h2 \in Handlers \ {h1} : pc[h2] \in {"idle", "await_json"}

\* a batch is in the middle of its reset while another delivery is in flight
C3_Witness ==
    \E h1, h2 \in Handlers :
        /\ pc[h1] = "stamp"
        /\ pc[h2] = "await_json"
        /\ frame[h2].entries # <<>>

\* the TTL had run out when the batch of handler h started
StaleAtStart(h) == now - frame[h].cleanup_at_start > hash_cache_expiry

\* C4: when a batch starts with the TTL run out, the cache is empty and the
\* last-reset time is the present time before any of its items is decided,
\* and the first item of the batch that carries a signature cached before
\* the reset is not rejected with duplicate_exact_duplicate
C4_ResetBeforeDeciding ==
    \A h \in Handlers : StaleAtStart(h) =>
        LET data == frame[h].article_data
            verdicts == frame[h].verdicts
        IN  /\ (pc[h] = "query" \/ (pc[h] = "loop" /\ verdicts = <<>>))
               => recent_hashes = {} /\ last_cache_cleanup = now
            /\ pc[h] \in {"query", "loop", "stats", "results", "store", "respond"}
               => \A i \in DOMAIN verdicts :
                    ( /\ SignatureOf[data[i]] \in frame[h].cache_at_start
                      /\ \A j \in 1..(i - 1) :
                            SignatureOf[data[j]] # SignatureOf[data[i]] )
                    => ~HasReason(verdicts[i].reasons, "duplicate_exact_duplicate")

\* a batch started stale and has decided an item whose signature was cached
\* before the reset
C4_Witness ==
    \E h \in Handlers :
        /\ StaleAtStart(h)
        /\ pc[h] = "loop"
        /\ frame[h].verdicts # <<>>
        /\ SignatureOf[frame[h].article_data[1]] \in frame[h].cache_at_start

\* C5: when is_duplicate reports no duplicate, the candidate's signature is
\* in the cache at its return, and the next call of is_duplicate on the same
\* item, whatever its window, reports exact_duplicate
C5_NotDuplicateIsCached ==
    /\ (call.op = "is_duplicate" /\ ~call.dup)
       => SignatureOf[call.item] \in recent_hashes
    /\ (call.op = "is_duplicate" /\ prev_call.op = "is_duplicate" /\ ~prev_call.dup)
       => call.dup /\ call.type = "exact_duplicate"

\* an item found no duplicate, then detected again against another window
C5_Witness ==
    /\ call.op = "is_duplicate" /\ prev_call.op = "is_duplicate"
    /\ ~prev_call.dup
    /\ ~call.same_window /\ call.window # <<>>
    /\ call.type = "exact_duplicate"

\* should_process_article was called twice in a row with the same item and the
\* same window
RepeatedDecide ==
    /\ call.op = "should_process_article"
    /\ prev_call.op = "should_process_article"
    /\ call.same_window

\* C6: two calls of should_process_article with the same item and the same
\* window return the same verdict
C6_SameArgumentsSameVerdict ==
    RepeatedDecide =>
        /\ call.should_process = prev_call.should_process
        /\ call.reasons = prev_call.reasons

\* the reasons with duplicate_exact_duplicate put where the duplicate reason
\* goes: after the content reasons, before filtered_url
WithExactDuplicate(reasons) ==
    IF reasons # <<>> /\ reasons[Len(reasons)] = "filtered_url"
    THEN SubSeq(reasons, 1, Len(reasons) - 1)
         \o <<"duplicate_exact_duplicate", "filtered_url">>
    ELSE Append(reasons, "duplicate_exact_duplicate")

\* C6, amended: of two calls of should_process_article made one right after
\* the other with the same item and window, the second returns the verdict of
\* the first when the window is empty or the first reported a duplicate;
\* otherwise the second rejects the item, with the reasons of the first and
\* duplicate_exact_duplicate in its place among them
C6_RepeatedVerdict ==
    RepeatedDecide =>
        IF call.window = <<>> \/ HasDuplicateReason(prev_call.reasons)
        THEN /\ call.should_process = prev_call.should_process
             /\ call.reasons = prev_call.reasons
        ELSE /\ ~call.should_process
             /\ call.reasons = WithExactDuplicate(prev_call.reasons)

\* an item accepted by one call and rejected by the same call made again
C6_Witness ==
    /\ RepeatedDecide
    /\ prev_call.should_process
    /\ call.reasons = <<"duplicate_exact_duplicate">>

\* the window article a is at most 7 days old at the call
WithinLookback(a) == call.at - a.created_at <= lookback_days * 24

MatchesFuzzy(a) == FuzzyOf[call.item] = ArticleFuzzyOf[a.item]

MatchesSimilar(a) == SimilarTo[call.item][a.item]

\* C7: a fuzzy_duplicate or similar_content report of is_duplicate is caused
\* by a window article at most 7 days old, never by an older one, and a
\* window article at most 7 days old that reaches the similarity threshold
\* makes a candidate that is not cached a duplicate
C7_LookbackSevenDays ==
    call.op = "is_duplicate" =>
        /\ call.type \in {"fuzzy_duplicate", "similar_content"}
           => \E i \in DOMAIN call.window :
                /\ WithinLookback(call.window[i])
                /\ MatchesFuzzy(call.window[i]) \/ MatchesSimilar(call.window[i])
        /\ ( /\ ~call.cached
             /\ \E i \in DOMAIN call.window :
                  WithinLookback(call.window[i]) /\ MatchesSimilar(call.window[i]) )
           => call.dup

\* C8: when the candidate is not cached and an article of the window, all of
\* it within the lookback, has the candidate's fuzzy signature, is_duplicate
\* reports fuzzy_duplicate, whatever the order of the window
C8_FuzzyBeforeSimilar ==
    ( /\ call.op = "is_duplicate"
      /\ ~call.cached
      /\ \A i \in DOMAIN call.window : WithinLookback(call.window[i])
      /\ \E i \in DOMAIN call.window : MatchesFuzzy(call.window[i]) )
    => call.dup /\ call.type = "fuzzy_duplicate"

\* C9: when the candidate's signature is cached, is_duplicate reports
\* exact_duplicate and leaves the cache as it was, whatever the window holds
C9_ExactFirst ==
    (call.op = "is_duplicate" /\ call.cached)
    => call.dup /\ call.type = "exact_duplicate" /\ ~call.grew

\* a cached candidate detected against a window that holds, within the
\* lookback, an article of its fuzzy signature and a similar one
C9_Witness ==
    /\ call.op = "is_duplicate" /\ call.cached
    /\ \E i \in DOMAIN call.window :
          WithinLookback(call.window[i]) /\ MatchesFuzzy(call.window[i])
    /\ \E i \in DOMAIN call.window :
          /\ WithinLookback(call.window[i])
          /\ MatchesSimilar(call.window[i]) /\ ~MatchesFuzzy(call.window[i])

\* the duplicate check triggers for the candidate of the call: its signature
\* is cached, or an article of the window matches it
DuplicateTriggers ==
    \/ call.cached
    \/ \E i \in DOMAIN call.window :
          MatchesFuzzy(call.window[i]) \/ MatchesSimilar(call.window[i])

\* the reasons of the checks other than the duplicate check that trigger for
\* the item, in the fixed order, before and after the place of the duplicate
\* reason
ContentReasons(item) ==
    (IF LowValueOf[item] THEN <<"low_value_content">> ELSE <<>>)
    \o (IF WireServiceOf[item] THEN <<"wire_service">> ELSE <<>>)
    \o (IF PrOf[item] THEN <<"pr_content">> ELSE <<>>)

UrlReasons(item) == IF FilteredUrlOf[item] THEN <<"filtered_url">> ELSE <<>>

\* C10: the reasons of should_process_article are those of the checks that
\* trigger for the item, each once, in the order low-value, wire-service,
\* promotional, duplicate, url (for windows within the lookback)
C10_EveryTriggeredReason ==
    ( /\ call.op = "should_process_article"
      /\ \A i \in DOMAIN call.window : WithinLookback(call.window[i]) )
    => /\ \E d \in {<<>>} \cup {<<r>> : r \in DuplicateReasons} :
            /\ call.reasons =
                  ContentReasons(call.item) \o d \o UrlReasons(call.item)
            /\ (d # <<>>) <=> DuplicateTriggers
       /\ call.should_process <=> (call.reasons = <<>>)

\* C10 with a window given: what the reasons are when the detector is asked
C10_EveryTriggeredReasonGivenWindow ==
    call.window # <<>> => C10_EveryTriggeredReason

\* the items of data whose verdict accepts, in the order of data
AcceptedItems(data, verdicts) ==
    LET idx == SelectSeq([i \in DOMAIN verdicts |-> i],
                         LAMBDA i : verdicts[i].should_process)
    IN  [j \in DOMAIN idx |-> data[idx[j]]]

\* C11: every verdict of should_process_article accepts if and only if its
\* reasons are empty, and the accepted output of filter_articles_batch holds
\* the items decided so far whose verdict accepts, and no others
C11_AcceptIffNoReasons ==
    \A h \in Handlers :
        LET verdicts == frame[h].verdicts
        IN  /\ \A i \in DOMAIN verdicts :
                  verdicts[i].should_process <=> (verdicts[i].reasons = <<>>)
            /\ frame[h].filtered_articles =
                  AcceptedItems(frame[h].article_data, verdicts)

\* a batch returned with an accepted item and an item rejected for one reason
C11_Witness ==
    \E h \in Handlers :
        /\ FilterReturned(h)
        /\ \E i \in DOMAIN frame[h].verdicts : frame[h].verdicts[i].should_process
        /\ \E i \in DOMAIN frame[h].verdicts : Len(frame[h].verdicts[i].reasons) = 1

\* s is q with some of its elements left out
RECURSIVE IsSubsequence(_, _)
IsSubsequence(s, q) ==
    IF s = <<>> THEN TRUE
    ELSE IF q = <<>> THEN FALSE
    ELSE IF Head(s) = Head(q) THEN IsSubsequence(Tail(s), Tail(q))
    ELSE IsSubsequence(s, Tail(q))

\* how often x occurs in s
Occurrences(s, x) == Cardinality({i \in DOMAIN s : s[i] = x})

\* C12: the accepted output of filter_articles_batch is a subsequence of the
\* input batch: the accepted items stand in the order of the input, and no
\* item occurs in the output more often than in the input
C12_AcceptedIsSubsequence ==
    \A h \in Handlers :
        LET data == frame[h].article_data
            accepted == frame[h].filtered_articles
        IN  /\ IsSubsequence(accepted, data)
            /\ \A x \in CorpusIds : Occurrences(accepted, x) <= Occurrences(data, x)

\* a batch returned with two different items accepted
C12_Witness ==
    \E h \in Handlers :
        /\ FilterReturned(h)
        /\ Len(frame[h].filtered_articles) = 2
        /\ frame[h].filtered_articles[1] # frame[h].filtered_articles[2]

\* the number of verdicts that carry the reason r
VerdictsWith(verdicts, r) ==
    Cardinality({i \in DOMAIN verdicts : HasReason(verdicts[i].reasons, r)})

\* the sum of stats over the keys S
RECURSIVE SumOver(_, _)
SumOver(stats, S) ==
    IF S = {} THEN 0
    ELSE LET s == CHOOSE x \in S : TRUE
         IN  stats[s] + SumOver(stats, S \ {s})

\* C13: in the statistics of a batch each reason counter is the number of
\* items decided whose verdict carries the reason; no counter exceeds
\* total_filtered, the counters sum to at least total_filtered, and to more
\* exactly when a rejected item carries more than one reason
C13_ReasonCounters ==
    \A h \in Handlers :
        LET stats == frame[h].rejection_stats
            verdicts == frame[h].verdicts
            sum == SumOver(stats, ReasonKeys)
        IN  /\ \A r \in ReasonKeys :
                  /\ stats[r] = VerdictsWith(verdicts, r)
                  /\ stats[r] <= stats["total_filtered"]
            /\ sum >= stats["total_filtered"]
            /\ (sum > stats["total_filtered"])
                  <=> \E i \in DOMAIN verdicts : Len(verdicts[i].reasons) > 1

\* a batch returned with an item rejected for one reason and an item
\* rejected for several
C13_Witness ==
    \E h \in Handlers :
        /\ FilterReturned(h)
        /\ \E i \in DOMAIN frame[h].verdicts : Len(frame[h].verdicts[i].reasons) = 1
        /\ \E i \in DOMAIN frame[h].verdicts : Len(frame[h].verdicts[i].reasons) > 1

\* C14: the statistics filter_articles_batch hands back hold the reduction
\* percentage, which is total_filtered / total_input * 100 (0 for an empty
\* batch) and lies between 0 and 100
C14_ReductionPercentageReturned ==
    \A h \in Handlers : FilterReturned(h) =>
        LET stats == frame[h].rejection_stats
        IN  /\ "reduction_percentage" \in DOMAIN stats
            /\ stats["reduction_percentage"] =
                  RoundedPercent(stats["total_filtered"], stats["total_input"])
            /\ stats["reduction_percentage"] \in 0..1000

\* C14 for the percentage the webhook handler derives itself from what the
\* filter returned: every batch record holds total_filtered / total_input *
\* 100 of its batch, between 0 and 100
C14_ReductionPercentageOfHandler ==
    \A i \in DOMAIN filtering_stats.recent_batches :
        LET b == filtering_stats.recent_batches[i]
        IN  /\ b.input > 0
            /\ b.reduction_pct \in 0..1000
            /\ 2 * (b.input * b.reduction_pct - 1000 * b.filtered)
                  \in (0 - b.input)..b.input

\* C15: no call of the reducer raises, and should_process_article rejects
\* an item whose body is None or empty with low_value_content
C15_MissingBodyIsLowValue ==
    /\ call.op # "raised"
    /\ ( /\ call.op = "should_process_article"
         /\ Corpus[call.item].content \in {NoneText, <<>>} )
       => HasReason(call.reasons, "low_value_content")

\* C15 for the bodies of the window: a call raises only when the body of its
\* candidate is None, whatever the bodies of the articles of its window
C15_OnlyNullCandidateRaises ==
    call.op = "raised" => Raises(call.item)

\* C15 for the entries of a delivery: an entry whose body is null is decided
\* with the empty body and rejected with low_value_content
C15_NullBodyOfEntryIsLowValue ==
    \A h \in Handlers : \A i \in DOMAIN frame[h].verdicts :
        Raises(frame[h].entries[i]) =>
            /\ Corpus[frame[h].article_data[i]].content = <<>>
            /\ HasReason(frame[h].verdicts[i].reasons, "low_value_content")

\* C16: the similarity of two empty texts is below the threshold, so that
\* is_duplicate does not report similar_content for a candidate whose
\* normalized text is empty against a window of articles whose normalized
\* texts are empty
C16_EmptyTextsNotSimilar ==
    ( /\ call.op = "is_duplicate"
      /\ ComparedOf[call.item] = <<>>
      /\ \A i \in DOMAIN call.window :
            ArticleComparedOf[call.window[i].item] = <<>> )
    => call.type # "similar_content"

\* the regular expression of the stop words matches somewhere in s
HasStopWord(s) == sub_stopwords(s) # s

HasWhitespaceRun(s) ==
    \E i \in 1..(Len(s) - 1) : IsSpace(s[i]) /\ IsSpace(s[i + 1])

\* C17: normalizing is idempotent: normalizing the normalized text returns
\* it unchanged, and the normalized text holds no run of two or more
\* whitespace characters and no stop word
C17_NormalizeIdempotent ==
    probe.fn = "_normalize_text"
    => /\ probe.again = probe.out
       /\ ~HasWhitespaceRun(probe.out)
       /\ ~HasStopWord(probe.out)

\* what does hold of the normalized text: no stop word is left in it, and
\* it neither starts nor ends with whitespace
C17_NoStopWordLeft ==
    probe.fn = "_normalize_text"
    => /\ ~HasStopWord(probe.out)
       /\ probe.out # <<>> => ~IsSpace(probe.out[1]) /\ ~IsSpace(probe.out[Len(probe.out)])

\* normalizing three times returns what normalizing twice returned
C17_TwiceIsEnough ==
    probe.fn = "_normalize_text"
    => _normalize_text(probe.again) = probe.again

\* the normalized title and the normalized first ExactPrefixLen characters
\* of the body of each input of create_content_signature
NormalizedInput ==
    [i \in DOMAIN SignatureInputs |->
        [title |-> _normalize_text(SignatureInputs[i].title),
         body  |-> _normalize_text(Prefix(SignatureInputs[i].content, ExactPrefixLen))]]

SameTitleAndPrefix(i, j) ==
    /\ SignatureInputs[i].title = SignatureInputs[j].title
    /\ Prefix(SignatureInputs[i].content, ExactPrefixLen)
           = Prefix(SignatureInputs[j].content, ExactPrefixLen)

C18_Witness_Beyond ==
    /\ probe.fn = "create_content_signature"
    /\ SignatureInputs[probe.i].content # SignatureInputs[probe.j].content
    /\ Len(SignatureInputs[probe.i].content) > ExactPrefixLen
    /\ SameTitleAndPrefix(probe.i, probe.j)
    /\ probe.first = probe.second

\* str.split(): the maximal runs of characters that are no whitespace
SplitWords(s) ==
    LET starts == {i \in 1..Len(s) :
                      ~IsSpace(s[i]) /\ (i = 1 \/ IsSpace(s[i - 1]))}
        End(i) == CHOOSE j \in i..Len(s) :
                      /\ j = Len(s) \/ IsSpace(s[j + 1])
                      /\ \A k \in i..j : ~IsSpace(s[k])
    IN  {SubSeq(s, i, End(i)) : i \in starts}

\* of each input of create_fuzzy_signature: the words of the compared text
\* (the title and the first FuzzyPrefixLen characters of the body) with
\* case, order and repetition forgotten, and its alphabetic tokens of
\* MinTokenLen letters or more
ComparedTextOf ==
    [i \in DOMAIN FuzzyInputs |->
        LET title == lower(FuzzyInputs[i].title)
            body  == lower(Prefix(FuzzyInputs[i].content, FuzzyPrefixLen))
        IN  [words  |-> SplitWords(title) \cup SplitWords(body),
             tokens |-> LetterWords(title) \cup LetterWords(body)]]

C19_Witness_Reordered ==
    /\ probe.fn = "create_fuzzy_signature"
    /\ FuzzyInputs[probe.i].title # FuzzyInputs[probe.j].title
    /\ lower(FuzzyInputs[probe.i].title) # lower(FuzzyInputs[probe.j].title)
    /\ ComparedTextOf[probe.i].words = ComparedTextOf[probe.j].words
    /\ probe.first = probe.second /\ probe.first # <<>>

\* two inputs whose bodies differ after the first 500 characters only, with
\* the same signature
C19_Witness_Beyond ==
    /\ probe.fn = "create_fuzzy_signature"
    /\ FuzzyInputs[probe.i].content # FuzzyInputs[probe.j].content
    /\ Prefix(FuzzyInputs[probe.i].content, FuzzyPrefixLen)
          = Prefix(FuzzyInputs[probe.j].content, FuzzyPrefixLen)
    /\ Len(FuzzyInputs[probe.i].content) > FuzzyPrefixLen
    /\ probe.first = probe.second

\* C20: an item whose URL holds a filtered path segment is rejected with
\* filtered_url among its reasons, whatever its title and body, the window
\* and the cache; and the URL of an item influences no other reason
C20_FilteredUrlAlwaysRejected ==
    /\ ( /\ call.fn = "should_process_article"
         /\ FilteredUrlOf[call.item] )
       => /\ call.op = "should_process_article"
          /\ ~call.should_process
          /\ HasReason(call.reasons, "filtered_url")
    /\ \A w \in Windows :
          \E plain \in {should_process_article(5, w)},
             other \in {should_process_article(6, w)} :
              /\ other.reasons = plain.reasons \o <<"filtered_url">>
              /\ other.hashes = plain.hashes

\* C20 for the calls that return: filtered_url is the last of the reasons
\* exactly when the URL holds a filtered segment, also when other checks
\* have rejected the item before
C20_FilteredUrlOfReturningCall ==
    call.op = "should_process_article"
    => /\ FilteredUrlOf[call.item]
            <=> HasReason(call.reasons, "filtered_url")
       /\ FilteredUrlOf[call.item]
            => /\ ~call.should_process
               /\ call.reasons[Len(call.reasons)] = "filtered_url"

\* C20, the second half: the same title and body under a plain and under a
\* filtered URL get the same other reasons and leave the same cache, for
\* every window and in every state of the cache
C20_UrlInfluencesNoOtherReason ==
    \A w \in Windows :
        \E plain \in {should_process_article(5, w)},
           other \in {should_process_article(6, w)} :
            /\ other.reasons = plain.reasons \o <<"filtered_url">>
            /\ other.hashes = plain.hashes

\* a call on an item under a filtered URL that other checks reject too
C20_Reached_SeveralReasons ==
    /\ call.op = "should_process_article"
    /\ FilteredUrlOf[call.item]
    /\ Len(call.reasons) >= 3
    /\ HasDuplicateReason(call.reasons)

\* the stored articles that match the candidate by fuzzy signature or by
\* similarity and whose age is at most lookback days
MatchingWithin(item, lookback) ==
    {j \in DOMAIN articles :
        /\ now - articles[j].created_at <= lookback * 24
        /\ \/ FuzzyOf[item] = ArticleFuzzyOf[articles[j].item]
           \/ SimilarTo[item][articles[j].item]}

HasWindowDuplicateReason(reasons) ==
    \/ HasReason(reasons, "duplicate_fuzzy_duplicate")
    \/ HasReason(reasons, "duplicate_similar_content")

\* C21: for every lookback L passed to filter_articles_batch a stored
\* article is compared with the candidates exactly when its age is at most
\* L days: a candidate whose signature is not cached is rejected as a fuzzy
\* or similar duplicate exactly when a stored article of that age matches it
C21_LookbackConfigurable ==
    \A h \in Handlers :
        (pc[h] = "return" /\ frame[h].endpoint = "direct")
        => \A i \in DOMAIN frame[h].verdicts :
              ~HasReason(frame[h].verdicts[i].reasons, "duplicate_exact_duplicate")
              => ( HasWindowDuplicateReason(frame[h].verdicts[i].reasons)
                     <=> MatchingWithin(frame[h].article_data[i],
                                        frame[h].max_lookback_days) # {} )

\* what holds instead: the article is compared when its age is at most L
\* days and its age in whole days is at most the 7 of is_duplicate
C21_LookbackCappedAtSeven ==
    \A h \in Handlers :
        (pc[h] = "return" /\ frame[h].endpoint = "direct")
        => \A i \in DOMAIN frame[h].verdicts :
              ~HasReason(frame[h].verdicts[i].reasons, "duplicate_exact_duplicate")
              => ( HasWindowDuplicateReason(frame[h].verdicts[i].reasons)
                     <=> \E j \in MatchingWithin(frame[h].article_data[i],
                                                 frame[h].max_lookback_days) :
                            AgeDays(articles[j]) <= lookback_days )

\* a lookback below 7 days keeps a matching article of 2 days out
C21_Reached_ShortLookback ==
    \E h \in Handlers :
        /\ pc[h] = "return" /\ frame[h].endpoint = "direct"
        /\ frame[h].max_lookback_days < lookback_days
        /\ \E i \in DOMAIN frame[h].verdicts :
              /\ frame[h].verdicts[i].should_process
              /\ MatchingWithin(frame[h].article_data[i], lookback_days) # {}

\* handler h, serving the test-filter endpoint, takes the step
TestFilterSteps(h) ==
    /\ frame[h].endpoint = "test"
    /\ pc'[h] # pc[h] \/ frame'[h] # frame[h]

\* C22: the test-filter endpoint processes nothing: no step of it changes
\* the articles table, the session statistics, the cache or the time of
\* its last reset
C22_TestFilterChangesNothing ==
    [][ (\E h \in Handlers : TestFilterSteps(h))
        => UNCHANGED <<articles, filtering_stats, recent_hashes,
                       last_cache_cleanup>> ]_vars

\* the part of C22 that holds: the test-filter endpoint stores no article
\* and leaves the session statistics as they are
C22_TestFilterStoresNothing ==
    [][ (\E h \in Handlers : TestFilterSteps(h))
        => UNCHANGED <<articles, filtering_stats>> ]_vars

\* a delivery to the filtered webhook whose first entry is rejected as an
\* exact duplicate although no delivery to that webhook was filtered before
\* it: the signature was cached by a call of the test-filter endpoint
C22_Reached_RealDeliveryRejected ==
    \E h \in Handlers :
        /\ frame[h].endpoint = "filtered"
        /\ frame[h].verdicts # <<>>
        /\ HasReason(frame[h].verdicts[1].reasons, "duplicate_exact_duplicate")
        /\ filtering_stats.session_total = 0
        /\ \A g \in Handlers \ {h} : frame[g].endpoint # "filtered"

\* C23: an item is rejected as an exact duplicate only if an item with the
\* same exact signature was accepted before it since the last reset of the
\* cache; here for a batch that found the cache empty: the earlier item is
\* then one of the same batch
C23_ExactOnlyAfterAccepted ==
    \A h \in Handlers :
        frame[h].cache_at_start = {}
        => \A i \in DOMAIN frame[h].verdicts :
              HasReason(frame[h].verdicts[i].reasons, "duplicate_exact_duplicate")
              => \E j \in 1..(i - 1) :
                    /\ SignatureOf[frame[h].article_data[j]]
                          = SignatureOf[frame[h].article_data[i]]
                    /\ frame[h].verdicts[j].should_process

\* what holds instead: an earlier item with the same signature was found
\* to be no duplicate, accepted or not
C23_ExactOnlyAfterNoDuplicate ==
    \A h \in Handlers :
        frame[h].cache_at_start = {}
        => \A i \in DOMAIN frame[h].verdicts :
              HasReason(frame[h].verdicts[i].reasons, "duplicate_exact_duplicate")
              => \E j \in 1..(i - 1) :
                    /\ SignatureOf[frame[h].article_data[j]]
                          = SignatureOf[frame[h].article_data[i]]
                    /\ ~HasDuplicateReason(frame[h].verdicts[j].reasons)
                    /\ frame[h].recent_articles # <<>>

\* an item that triggers no classifier is dropped as the exact duplicate of
\* an item that was rejected for its URL
C23_Reached_HighValueDropped ==
    \E h \in Handlers :
        /\ frame[h].cache_at_start = {}
        /\ Len(frame[h].verdicts) = 2
        /\ frame[h].verdicts[1].reasons = <<"filtered_url">>
        /\ frame[h].verdicts[2].reasons = <<"duplicate_exact_duplicate">>

\* handler h has decided entry j of its batch, which has the exact signature
\* of entry i of the delivery answered last, an entry that was accepted;
\* both filters had articles in their windows
SecondOfTwoBatches(h, i, j) ==
    /\ i \in DOMAIN answered.verdicts
    /\ j \in DOMAIN frame[h].verdicts
    /\ answered.has_window
    /\ frame[h].recent_articles # <<>>
    /\ answered.verdicts[i].should_process
    /\ SignatureOf[answered.article_data[i]]
          = SignatureOf[frame[h].article_data[j]]

\* C24 (as stated): of two batches processed concurrently that each hold an
\* item with the same exact signature, at most one accepts the item and the
\* other rejects it as an exact duplicate
C24_OneAcceptsOtherExact ==
    \A h \in Handlers :
        \A i \in DOMAIN answered.verdicts, j \in DOMAIN frame[h].verdicts :
            (/\ answered.concurrent
             /\ SecondOfTwoBatches(h, i, j)
             /\ \A r \in DOMAIN frame[h].verdicts[j].reasons :
                    frame[h].verdicts[j].reasons[r] = "duplicate_exact_duplicate")
            => /\ ~frame[h].verdicts[j].should_process
               /\ HasReason(frame[h].verdicts[j].reasons,
                            "duplicate_exact_duplicate")

\* C24 (amended): of two batches that each hold an item with the same exact
\* signature, processed concurrently or one after the other without a
\* reset of the cache between their filters, at most one accepts the item
\* and the other rejects it as an exact duplicate
C24_OneAcceptsWithoutReset ==
    \A h \in Handlers :
        \A i \in DOMAIN answered.verdicts, j \in DOMAIN frame[h].verdicts :
            (last_cache_cleanup = answered.cleanup /\ SecondOfTwoBatches(h, i, j))
            => /\ ~frame[h].verdicts[j].should_process
               /\ HasReason(frame[h].verdicts[j].reasons,
                            "duplicate_exact_duplicate")

\* two deliveries in flight at once with the same item: the first was
\* accepted, the second is rejected as an exact duplicate and nothing else
C24_Witness ==
    \E h \in Handlers :
        /\ answered.concurrent
        /\ last_cache_cleanup = answered.cleanup
        /\ SecondOfTwoBatches(h, 1, 1)
        /\ frame[h].endpoint = "filtered"
        /\ frame[h].verdicts[1].reasons = <<"duplicate_exact_duplicate">>

\* the cache is reset between the filters of two concurrent deliveries, the
\* first accepted item could not be stored, and the second is accepted too
C24_Reached_BothAccepted ==
    \E h \in Handlers :
        /\ answered.concurrent
        /\ SecondOfTwoBatches(h, 1, 1)
        /\ frame[h].endpoint = "filtered"
        /\ frame[h].verdicts[1].should_process

\* handler h takes the step of cleanup_cache that looks at the TTL
CleanupStep(h) == pc[h] = "filter" /\ pc'[h] # "filter"

\* handler h decides one more entry, and reports a duplicate of any kind
ReportsDuplicate(h) ==
    /\ pc[h] = "loop"
    /\ Len(frame'[h].verdicts) = Len(frame[h].verdicts) + 1
    /\ \E r \in {"duplicate_exact_duplicate", "duplicate_fuzzy_duplicate",
                  "duplicate_similar_content"} :
           HasReason(frame'[h].verdicts[Len(frame'[h].verdicts)].reasons, r)

\* C25: between two resets the cache only grows: cleanup_cache before the
\* TTL has elapsed leaves the cache and the time of the last reset as they
\* are, a detection that reports a duplicate leaves the cache as it is, and
\* a signature leaves the cache only in the reset of cleanup_cache after the
\* TTL
C25_CacheOnlyGrowsBetweenResets ==
    [][/\ \A h \in Handlers :
            (CleanupStep(h) /\ now - last_cache_cleanup <= hash_cache_expiry)
            => /\ recent_hashes' = recent_hashes
               /\ last_cache_cleanup' = last_cache_cleanup
               /\ pc'[h] = "query"
       /\ \A h \in Handlers :
            ReportsDuplicate(h) => recent_hashes' = recent_hashes
       /\ \/ recent_hashes \subseteq recent_hashes'
          \/ /\ recent_hashes' = {}
             /\ now - last_cache_cleanup > hash_cache_expiry
             /\ \E h \in Handlers : CleanupStep(h)
       /\ last_cache_cleanup' # last_cache_cleanup
            => /\ last_cache_cleanup' = now
               /\ recent_hashes = {}
               /\ \E h \in Handlers : pc[h] = "stamp"]_vars

\* a filter run that started with a signature in the cache, a day after the
\* last reset to the hour, has reported a duplicate: cache and time of the
\* last reset are what they were at its start
C25_Witness ==
    \E h \in Handlers :
        /\ pc[h] = "loop"
        /\ frame[h].cache_at_start # {}
        /\ now - last_cache_cleanup = hash_cache_expiry
        /\ recent_hashes = frame[h].cache_at_start
        /\ last_cache_cleanup = frame[h].cleanup_at_start
        /\ \E j \in DOMAIN frame[h].verdicts :
               HasReason(frame[h].verdicts[j].reasons, "duplicate_exact_duplicate")

\* the reset: a filter run that started after the TTL has emptied a cache
\* that held a signature
C25_Witness_Reset ==
    \E h \in Handlers :
        /\ pc[h] = "stamp"
        /\ frame[h].cache_at_start # {}
        /\ recent_hashes = {}

\* the articles of the table with the ids in ids, as items
ItemsOf(ids) == [i \in DOMAIN ids |-> articles[ids[i]].item]

\* s is t without some of its elements
RECURSIVE IsSubSeq(_, _)
IsSubSeq(s, t) ==
    IF s = <<>> THEN TRUE
    ELSE IF t = <<>> THEN FALSE
    ELSE IF Head(s) = Head(t) THEN IsSubSeq(Tail(s), Tail(t))
    ELSE IsSubSeq(s, Tail(t))

\* the accepted items of the batch of h, in the order of the batch
AcceptedOf(h) ==
    LET idx == SelectSeq([i \in DOMAIN frame[h].verdicts |-> i],
                         LAMBDA i : frame[h].verdicts[i].should_process)
    IN  [i \in DOMAIN idx |-> frame[h].article_data[idx[i]]]

\* what holds of the store loop of handler h: stored articles are accepted
\* items in acceptance order, each queued once in that order, and no more
\* of them than will_process reports
StoresAcceptedQueuesOnce(h) ==
    /\ frame[h].filtered_articles = AcceptedOf(h)
    /\ IsSubSeq(ItemsOf(frame[h].stored_articles),
                SubSeq(frame[h].filtered_articles, 1, frame[h].k - 1))
    /\ frame[h].tasks = frame[h].stored_articles
    /\ \A i, j \in DOMAIN frame[h].tasks :
           i < j => frame[h].tasks[i] < frame[h].tasks[j]
    /\ frame[h].stored = Len(frame[h].stored_articles)
    /\ frame[h].stored <= frame[h].rejection_stats["processed"]

\* a storage failure skips the one article it hit: every accepted article
\* whose insert the database did not refuse is stored
FailureSkipsOneArticle(h) ==
    Len(frame[h].stored_articles)
        = Cardinality({i \in DOMAIN frame[h].refused : ~frame[h].refused[i]})

\* C26: the filtered webhook stores an article only if the filter accepted
\* it, queues every stored article for analysis once and in acceptance
\* order, never stores or queues a rejected item, loses to a storage failure
\* only the article that failed, and reports stored_for_analysis no greater
\* than will_process
C26_StoresAcceptedFailureSkipsOne ==
    \A h \in Handlers :
        pc[h] = "store"
        => StoresAcceptedQueuesOnce(h) /\ FailureSkipsOneArticle(h)

\* C26 (what holds): all of it but the extent of a storage failure
C26_StoresAcceptedQueuesOnce ==
    \A h \in Handlers : pc[h] = "store" => StoresAcceptedQueuesOnce(h)

\* the first of two accepted articles was refused by the database, the
\* second was not and is lost all the same
C26_Reached_FailureSkipsTheRest ==
    \E h \in Handlers :
        /\ pc[h] = "store"
        /\ frame[h].refused = <<TRUE, FALSE>>
        /\ frame[h].stored_articles = <<>>
        /\ frame[h].rejection_stats["processed"] = 2

\* a batch of an accepted and a rejected item: one stored, one queued
C26_Reached_StoredAndQueued ==
    \E h \in Handlers :
        /\ pc[h] = "store"
        /\ Len(frame[h].article_data) = 2
        /\ Len(frame[h].tasks) = 1
        /\ frame[h].rejection_stats["total_filtered"] = 1

\* a run of process_with_stage_a on a stored article has ended
RunEnded ==
    /\ run.fn = "process_with_stage_a"
    /\ run.pc = "returned"
    /\ run.article_id \in StageArticles

\* the article is in processing while Stage-A is called and its response
\* stored
ProcessingBeforeStageA ==
    (run.fn = "process_with_stage_a" /\ run.pc \in {"analyze", "store", "complete"})
    => article_status[run.article_id].status = "processing"

\* completed only with the response stored, failed with the error text
\* whenever the Stage-A call or the storing raised
CompletedOrFailed ==
    /\ article_status[run.article_id].status \in {"completed", "failed"}
    /\ article_status[run.article_id].status = "completed"
          => run.stored /\ run.exc = "none"
    /\ run.exc \in {"stage_a", "store"}
          => article_status[run.article_id] =
                 [status |-> "failed", processing_error |-> run.exc]

\* C27 (as stated): every run of process_article_pipeline has the article
\* in processing before Stage-A is called and ends with it completed or
\* failed, never left in processing: completed only after the response was
\* stored, failed with the error text whenever the Stage-A call or the
\* storing raised
C27_EndsCompletedOrFailed ==
    /\ ProcessingBeforeStageA
    /\ RunEnded => CompletedOrFailed

\* C27 (what holds): the same of every run in which the database accepted
\* each commit of the article's status
C27_EndsCompletedOrFailedIfCommitted ==
    /\ ProcessingBeforeStageA
    /\ (RunEnded /\ ~run.inactive) => CompletedOrFailed

\* the response is stored, the one commit of "completed" is refused, and
\* the run ends with the article left in processing
C27_Reached_LeftInProcessing ==
    /\ RunEnded
    /\ run.stored
    /\ run.refused = 1
    /\ run.propagated
    /\ article_status[run.article_id].status = "processing"

\* a run ends completed, another ends failed after the storing raised
C27_Reached_Completed ==
    /\ RunEnded /\ ~run.inactive
    /\ article_status[run.article_id].status = "completed"

C27_Reached_FailedStoring ==
    /\ RunEnded /\ ~run.inactive
    /\ run.exc = "store"
    /\ article_status[run.article_id].status = "failed"

\* the records of article a in a table
RecordsOf(table, a) == {i \in DOMAIN table : table[i].article_id = a}

\* store_stage_a_response has returned for the article of the run
StoreReturned == run.stored /\ run.pc \in {"complete", "returned"}

\* store_stage_a_response has raised
StoreRaised == run.rolled_back /\ run.pc \in {"except", "raised"}

\* C30: store_stage_a_response is an upsert keyed by article: there is at
\* most one record per article_id at any time; a call that returns leaves
\* one record of its article holding its response, updated in place when
\* the article had a record and added otherwise, the other records as they
\* were; a call fails only when the database refuses the commit, and then
\* the session is rolled back and the table is what it was before the call
C30_UpsertKeyedByArticle ==
    /\ UniqueArticleId(processed_articles)
    /\ StoreReturned
          => /\ \E i \in DOMAIN processed_articles :
                   /\ RecordsOf(processed_articles, run.article_id) = {i}
                   /\ processed_articles[i].stage_a_success
                         = (run.response = "success")
                   /\ processed_articles[i].updated
                         = (RecordsOf(run.table_before, run.article_id) # {})
                   /\ RecordsOf(run.table_before, run.article_id) \subseteq {i}
             /\ Len(processed_articles) =
                   Len(run.table_before)
                   + (IF RecordsOf(run.table_before, run.article_id) = {} THEN 1 ELSE 0)
             /\ \A j \in DOMAIN run.table_before :
                   run.table_before[j].article_id # run.article_id
                   => processed_articles[j] = run.table_before[j]
    /\ StoreRaised
          => /\ processed_articles = run.table_before
             /\ ~run.inactive
             /\ run.exc = "store"
             /\ run.refused >= 1

\* a repeated direct call for an article that has a record, among records of
\* another article: the record now holds the other answer
C30_Witness ==
    /\ run.fn = "store_stage_a_response"
    /\ StoreReturned
    /\ Len(processed_articles) = 2
    /\ \E i \in RecordsOf(run.table_before, run.article_id) :
           run.table_before[i].stage_a_success # processed_articles[i].stage_a_success

\* a repeated call whose commit the database refused: the record is what it
\* was
C30_Witness_Raised ==
    /\ run.fn = "store_stage_a_response"
    /\ StoreRaised
    /\ RecordsOf(run.table_before, run.article_id) # {}
    /\ \E i \in RecordsOf(processed_articles, run.article_id) :
           processed_articles[i].stage_a_success # (run.response = "success")

\* the statistics as the session keeps them
Session == filtering_stats

\* C28: across the deliveries to the filtered webhook session_total is
\* session_filtered + session_processed, no counter decreases, a delivery
\* without entries changes nothing, the list of batch records holds 20
\* records at most and loses its oldest first, and the statistics endpoint
\* reports the last 10 of them at most
C28_SessionStatistics ==
    [][/\ Session'.session_total
            = Session'.session_filtered + Session'.session_processed
       /\ Session'.session_total >= Session.session_total
       /\ Session'.session_filtered >= Session.session_filtered
       /\ Session'.session_processed >= Session.session_processed
       /\ \A h \in Handlers :
            (pc[h] = "await_json" /\ frame[h].entries = <<>> /\ pc'[h] # pc[h])
            => pc'[h] = "idle" /\ Session' = Session
       /\ Len(Session'.recent_batches) <= KeptBatches
       /\ Session' # Session
            => \E h \in Handlers :
                 LET b == Session'.recent_batches[Len(Session'.recent_batches)]
                 IN  /\ pc[h] = "stats"
                     /\ b.input = Len(frame[h].article_data)
                     /\ b.input = b.filtered + b.processed
                     /\ Session'.session_total = Session.session_total + b.input
                     /\ Session'.recent_batches =
                           IF Len(Session.recent_batches) = KeptBatches
                           THEN Append(Tail(Session.recent_batches), b)
                           ELSE Append(Session.recent_batches, b)
       /\ reported' # reported
            => /\ Len(reported'.recent_batches) <= ReportedBatches
               /\ Len(reported'.recent_batches)
                     = IF Len(Session.recent_batches) < ReportedBatches
                       THEN Len(Session.recent_batches) ELSE ReportedBatches
               /\ \A i \in DOMAIN reported'.recent_batches :
                     reported'.recent_batches[i]
                       = Session.recent_batches[Len(Session.recent_batches)
                             - Len(reported'.recent_batches) + i]
               /\ reported'.total_input
                     = reported'.total_filtered + reported'.total_processed
      ]_vars

\* the service has answered 21 deliveries or more: the list holds 20 records,
\* the record of the first delivery is gone, and the endpoint has reported
\* the last 10, the newest of them a batch with a rejected entry
C28_Witness ==
    /\ Len(filtering_stats.recent_batches) = KeptBatches
    /\ filtering_stats.recent_batches[1].input = 2
    /\ filtering_stats.session_filtered > 0
    /\ Len(reported.recent_batches) = ReportedBatches
    /\ reported.recent_batches[ReportedBatches]
          = filtering_stats.recent_batches[KeptBatches]
    /\ reported.recent_batches[ReportedBatches].filtered > 0

\* a delivery without entries was answered and changed nothing
C28_Witness_NoEntries ==
    /\ deliveries = 1
    /\ pc[1] = "idle"
    /\ filtering_stats \in {StatsAfter(n) : n \in EarlierDeliveries}

\* the results of the report of handler h that have will_process = b
ResultsWith(h, b) ==
    {i \in DOMAIN frame[h].results : frame[h].results[i].will_process = b}

\* C29: in the report of the test-filter endpoint the results agree with
\* the summary: as many results with will_process = false as would_filter,
\* as many with will_process = true as would_process, and total_articles
\* is the number of entries submitted
C29_ResultsAgreeWithSummary ==
    \A h \in Handlers :
        pc[h] = "respond"
        => /\ Cardinality(ResultsWith(h, FALSE)) = TestSummary(h).would_filter
           /\ Cardinality(ResultsWith(h, TRUE)) = TestSummary(h).would_process
           /\ TestSummary(h).total_articles = Len(frame[h].entries)

\* C29 (what holds): the report has one result per entry, and would_filter
\* and would_process add up to the number of entries
C29_OneResultPerEntry ==
    \A h \in Handlers :
        pc[h] = "respond"
        => /\ Len(frame[h].results) = Len(frame[h].entries)
           /\ TestSummary(h).would_filter + TestSummary(h).would_process
                 = Len(frame[h].entries)

\* a report whose results all say will_process while the summary counts a
\* filtered entry: the filter rejected a duplicate, the results are decided
\* again without a window
C29_Reached_DuplicateShownAsProcessed ==
    \E h \in Handlers :
        /\ pc[h] = "respond"
        /\ ResultsWith(h, FALSE) = {}
        /\ TestSummary(h).would_filter = 1

\* a report on one entry, rejected by the filter and in the results alike,
\* with total_articles = 4
C29_Reached_TotalIsKeyCount ==
    \E h \in Handlers :
        /\ pc[h] = "respond"
        /\ Len(frame[h].entries) = 1
        /\ ResultsWith(h, FALSE) = {1}
        /\ TestSummary(h).would_filter = 1
        /\ TestSummary(h).total_articles = 4

====
